---------------------------- MODULE Spec2Model ----------------------------
(***************************************************************************)
(* Model of the console monitor (wiperi/consoled), proxy side:              *)
(*   - the frame codec and the FrameFilter extractor                        *)
(*       (src/console_monitor/frame.py),                                    *)
(*   - the per-link SerialProxy (src/temp/serial_proxy.py) with the store   *)
(*       projection of DceDbHelper (src/console_monitor/dce.py),            *)
(*   - the ProxyManager reconcile pass (src/console_monitor/dce.py).        *)
(*                                                                         *)
(* Bytes are naturals in 0..255 and byte strings are sequences of them.    *)
(* An Optional value is a sequence of length 0 (None) or 1.                 *)
(***************************************************************************)
EXTENDS Integers, Sequences, FiniteSets, TLC

VARIABLES
    \* ---- FrameFilter instance (frame.py:300-314)
    buffer,          \* FrameFilter._buffer
    escape_next,     \* FrameFilter._escape_next
    in_frame,        \* FrameFilter._in_frame
    \* ---- what the extractor's callbacks were called with, in order
    frames_out,      \* arguments of on_frame
    user_out,        \* arguments of on_user_data
    oplog,           \* the calls made on the extractor so far
    \* ---- SerialProxy instance (serial_proxy.py:26-50) and its surroundings
    now,                 \* the clock (time.monotonic, time.time), in ticks
    phase,               \* where the proxy is in its life: "new", "started",
                         \* "stopping" (stop() awaits cleanup_state), "stopped",
                         \* "rollback" (start() failed and awaits stop()), "failed"
    running,             \* SerialProxy.running
    open_fds,            \* which of ser_fd, pty_master, pty_slave are open
    readers,             \* the fds registered with loop.add_reader
    fs_symlink,          \* what is at the symlink's path: "none", "stale", "ours"
    pty_symlink,         \* SerialProxy.pty_symlink is not ""
    has_filter,          \* SerialProxy.filter is not None
    timeout_handle,      \* SerialProxy._timeout_handle: <<>> or <<deadline>>
    heartbeat_handle,    \* SerialProxy._heartbeat_handle: <<>> or <<deadline>>
    current_oper_state,  \* SerialProxy._current_oper_state: "none", "up", "down"
    last_data_activity,  \* SerialProxy._last_data_activity
    state_db,            \* the hash CONSOLE_PORT|<link_id> of STATE_DB
    tasks,               \* update_state tasks created and not yet run
    pty_out,             \* the chunks written to pty_master
    \* ---- history of the proxy
    issued,              \* the oper_state of each update_state task created
    last_heartbeat,      \* when the last heartbeat frame was received, -1: never
    asked,               \* the state the last heartbeat or liveness event asked
                         \* for; "none" again when a store write fails
    silence_at_down,     \* now - _last_data_activity when the liveness handler
                         \* took the link from up to down, -1: it never did
    start_fault,         \* the step of start() that failed, "none"
    hdel_done,           \* stop()'s cleanup_state removed the fields
    reads,               \* number of chunks read from the serial device
    read_failed,         \* a read of the serial fd raised OSError (the device
                         \* is gone)
    \* ---- ProxyManager (dce.py:125-130) and CONFIG_DB
    proxies,             \* ProxyManager.proxies: link_id -> <<>> or <<proxy>>
    config,              \* CONSOLE_PORT|<link_id> baud_rate: <<>> or <<baud>>
    enabled,             \* CONSOLE_SWITCH|console_mgmt enabled = "yes"
    after_sync,          \* a reconcile pass has completed, and CONFIG_DB was
                         \* not changed after it
    manager_pc,          \* where the manager is: "start" (before the initial
                         \* sync), "sync" (in the loops of sync), "subscribe"
                         \* (initial sync done), "run" (awaiting an event),
                         \* "exit" (run() or start() left, main's finally
                         \* reached), "stop" (stop() awaits the proxies),
                         \* "stopped"
    manager_running,     \* ProxyManager.running
    subscribed,          \* subscribe_config_changes has been called
    events,              \* keyspace messages delivered and not yet taken
    redis_configs,       \* sync's redis_configs: link_id -> <<>> or <<baud>>;
                         \* no link after a pass through the disabled branch
    todo,                \* the links that the loops of sync still have to do
    stopping,            \* the links whose proxy ProxyManager.stop still awaits
    db_closed,           \* db.close() has been called
    \* ---- history of the manager
    stop_flag,           \* the signal handler has run
    late_op,             \* sync began work on a link after the signal handler ran
    store_failed,        \* the read of the flag, the read of the configuration
                         \* or the wait for an event raised in this step
    missed,              \* CONFIG_DB was changed after the initial snapshot
                         \* and before the subscription
    pass_enabled,        \* the flag as the last pass read it
    all_started,         \* every start() of the last pass returned True
    prev_configs,        \* redis_configs of the pass before the last
    stops,               \* link_id -> stop() calls of the last pass
    starts,              \* link_id -> start() calls of the last pass
    live,                \* link_id -> proxies started and not yet stopped
    changes,             \* the writes to CONFIG_DB so far
    \* ---- the codec on its own (frame.py)
    c_frame,             \* the frame f under test: <<>> or <<f>>
    c_x,                 \* the byte sequence x under test
    c_bytes,             \* the bytes that the last operation returned
    c_ops,               \* the operations applied so far, in order
    c_parsed,            \* what Frame.parse returned: <<>> or <<frame>>
    c_frames,            \* the frames a FrameFilter passed to on_frame
    c_user,              \* the chunks a FrameFilter passed to on_user_data
    \* ---- DTEHeartbeat (dte.py) and the flag it follows
    dte_flag,            \* CONSOLE_SWITCH|controlled_device enabled is "yes"
    dte_running,         \* DTEHeartbeat.running
    dte_enabled,         \* DTEHeartbeat.enabled
    dte_seq,             \* DTEHeartbeat.seq
    dte_heartbeat_task,  \* _heartbeat_task: "none", "ready" (about to test
                         \* its loop condition), "sleeping", "done"
    dte_subscribed,      \* _subscribe_loop has subscribed to the key
    dte_events,          \* keyspace messages delivered and not yet taken
    dte_last_seq,        \* seq of the last frame written to the serial fd, -1
                         \* before the first
    dte_missed,          \* the flag was written between the initial read and
                         \* the subscription
    dte_pc,              \* the service: "new", "started", "stopped"
    dte_since            \* seconds of asyncio.sleep(HEARTBEAT_INTERVAL) that
                         \* the heartbeat task has slept

fvars == <<buffer, escape_next, in_frame, frames_out, user_out, oplog>>

pvars == <<now, phase, running, open_fds, readers, fs_symlink, pty_symlink,
           has_filter, timeout_handle, heartbeat_handle, current_oper_state,
           last_data_activity, state_db, tasks, pty_out, issued,
           last_heartbeat, asked, silence_at_down, start_fault, hdel_done, reads,
           read_failed>>

svars == <<proxies, config, enabled, after_sync, manager_pc, manager_running,
           subscribed, events, redis_configs, todo, stopping, db_closed,
           stop_flag, late_op, store_failed, missed, pass_enabled, all_started,
           prev_configs, stops, starts, live, changes>>

cvars == <<c_frame, c_x, c_bytes, c_ops, c_parsed, c_frames, c_user>>

evars == <<dte_flag, dte_running, dte_enabled, dte_seq, dte_heartbeat_task,
           dte_subscribed, dte_events, dte_last_seq, dte_missed, dte_pc,
           dte_since>>

vars == <<fvars, pvars, svars, cvars, evars>>

-----------------------------------------------------------------------------
(* Constants of frame.py *)

SOF == 5
EOF == 0
DLE == 16
ESCAPABLE_CHARS == {SOF, EOF, DLE}
HEARTBEAT == 1
PROTOCOL_VERSION == 1
SOF_LEN == 3
EOF_LEN == 3
MAX_FRAME_BUFFER_SIZE == 64
SOF_SEQUENCE == [i \in 1..SOF_LEN |-> SOF]
EOF_SEQUENCE == [i \in 1..EOF_LEN |-> EOF]

-----------------------------------------------------------------------------
(* A for loop: Step(acc, i) applied for i = lo, lo+1, ..., hi in this order. *)
(* The range is halved, and each half is computed before the next is begun *)
(* (the test a = a is always true and makes TLC compute a), so that TLC's  *)
(* evaluation stays shallow on inputs of a hundred bytes.                  *)

RECURSIVE ForRange(_, _, _, _)
ForRange(Step(_, _), acc, lo, hi) ==
    IF lo > hi THEN acc
    ELSE IF lo = hi THEN Step(acc, lo)
    ELSE LET mid == (lo + hi) \div 2
             a == ForRange(Step, acc, lo, mid)
         IN  IF a = a THEN ForRange(Step, a, mid + 1, hi) ELSE a

-----------------------------------------------------------------------------
(* CRC-16/MODBUS, bit by bit as crc16_modbus does it *)

\* Python's a ^ b on non-negative integers
RECURSIVE BitXor(_, _)
BitXor(a, b) ==
    IF a = 0 THEN b
    ELSE IF b = 0 THEN a
    ELSE (((a % 2) + (b % 2)) % 2) + 2 * BitXor(a \div 2, b \div 2)

\* the inner loop "for _ in range(8)": n shift steps still to do
RECURSIVE CrcShift(_, _)
CrcShift(crc, n) ==
    IF n = 0 THEN crc
    ELSE IF crc % 2 = 1 THEN CrcShift(BitXor(crc \div 2, 40961), n - 1)
                        ELSE CrcShift(crc \div 2, n - 1)

crc16_modbus(data) ==
    LET Step(crc, i) == CrcShift(BitXor(crc, data[i]), 8)
    IN  ForRange(Step, 65535, 1, Len(data))

-----------------------------------------------------------------------------
(* Escaping *)

\* an escape_data that leaves DLE bytes as they are
escape_data_NoDle(data) ==
    LET Step(result, i) ==
            IF data[i] \in {SOF, EOF}
            THEN result \o <<DLE, data[i]>>
            ELSE Append(result, data[i])
    IN  ForRange(Step, <<>>, 1, Len(data))

\* an escape_data that leaves SOF bytes as they are
escape_data_NoSof(data) ==
    LET Step(result, i) ==
            IF data[i] \in {EOF, DLE}
            THEN result \o <<DLE, data[i]>>
            ELSE Append(result, data[i])
    IN  ForRange(Step, <<>>, 1, Len(data))

escape_data(data) ==
    LET Step(result, i) ==
            IF data[i] \in ESCAPABLE_CHARS
            THEN result \o <<DLE, data[i]>>
            ELSE Append(result, data[i])
    IN  ForRange(Step, <<>>, 1, Len(data))

\* the while loop of unescape_data: acc.i is the loop's index i (from 1), and
\* the step at k does nothing when the loop has already moved past k
unescape_data(data) ==
    LET Step(acc, k) ==
            IF acc.i # k THEN acc
            ELSE IF data[k] = DLE /\ k + 1 <= Len(data)
                    /\ data[k + 1] \in ESCAPABLE_CHARS
            THEN [result |-> Append(acc.result, data[k + 1]), i |-> k + 2]
            ELSE [result |-> Append(acc.result, data[k]), i |-> k + 1]
    IN  ForRange(Step, [result |-> <<>>, i |-> 1], 1, Len(data)).result

-----------------------------------------------------------------------------
(* Frame *)

Frame(version, seq, flag, frame_type, payload) ==
    [version |-> version, seq |-> seq, flag |-> flag,
     frame_type |-> frame_type, payload |-> payload]

create_heartbeat(seq) == Frame(PROTOCOL_VERSION, seq, 0, HEARTBEAT, <<>>)

is_heartbeat(f) == f.frame_type = HEARTBEAT

\* content + CRC with the CRC's low byte first
content_with_crc_LittleEndian(f) ==
    LET content == <<f.version, (f.seq % 256), f.flag, f.frame_type,
                     Len(f.payload)>> \o f.payload
        crc == crc16_modbus(content)
    IN  content \o <<(crc % 256), (crc \div 256)>>

\* content + CRC, before escaping (build, lines 167-180)
content_with_crc(f) ==
    LET content == <<f.version, (f.seq % 256), f.flag, f.frame_type,
                     Len(f.payload)>> \o f.payload
        crc == crc16_modbus(content)
    IN  content \o <<(crc \div 256), (crc % 256)>>

build(f) == SOF_SEQUENCE \o escape_data(content_with_crc(f)) \o EOF_SEQUENCE

\* Frame.parse: <<>> for None, <<frame>> for a frame
parse(buf) ==
    LET unescaped == unescape_data(buf)
        n == Len(unescaped)
    IN  IF n < 7 THEN <<>>
        ELSE LET content == SubSeq(unescaped, 1, n - 2)
                 expected_crc == crc16_modbus(content)
                 received_crc == unescaped[n - 1] * 256 + unescaped[n]
             IN  IF expected_crc # received_crc THEN <<>>
                 ELSE IF Len(content) < 5 THEN <<>>
                 ELSE LET length == content[5]
                          last == IF 5 + length < Len(content)
                                  THEN 5 + length ELSE Len(content)
                      IN  <<Frame(content[1], content[2], content[3], content[4],
                                  IF length > 0 THEN SubSeq(content, 6, last)
                                  ELSE <<>>)>>

-----------------------------------------------------------------------------
(* FrameFilter.  The methods are functions of the filter's state st,       *)
(* a record [buffer, escape_next, in_frame, frames, user]; frames and user *)
(* collect the callbacks made during the call, in order.                   *)

NewFilter ==
    [buffer |-> <<>>, escape_next |-> FALSE, in_frame |-> FALSE,
     frames |-> <<>>, user |-> <<>>]

\* mutant: _flush_as_user_data without buffer.clear()
flush_as_user_data_NoClear(st) ==
    [st EXCEPT !.user = IF st.buffer # <<>> THEN Append(@, st.buffer) ELSE @,
               !.escape_next = FALSE]

flush_as_user_data(st) ==
    [st EXCEPT !.user = IF st.buffer # <<>> THEN Append(@, st.buffer) ELSE @,
               !.buffer = <<>>,
               !.escape_next = FALSE]

\* mutant: a discard that hands the buffer to the user
discard_buffer_AsUser(st) == flush_as_user_data(st)

discard_buffer(st) == [st EXCEPT !.buffer = <<>>, !.escape_next = FALSE]

flush_buffer(st) ==
    [(IF ~st.in_frame THEN flush_as_user_data(st) ELSE discard_buffer(st))
        EXCEPT !.in_frame = FALSE]

\* mutant: the overflow test with > for >=
Overflow_Late(st) == Len(st.buffer) > MAX_FRAME_BUFFER_SIZE

\* the overflow test of process, after an append
Overflow(st) == Len(st.buffer) >= MAX_FRAME_BUFFER_SIZE

\* mutant: try_parse_frame without buffer.clear()
try_parse_frame_NoClear(st) ==
    IF st.buffer = <<>> THEN [st EXCEPT !.escape_next = FALSE]
    ELSE [st EXCEPT !.frames = @ \o parse(st.buffer),
                    !.escape_next = FALSE]

try_parse_frame(st) ==
    IF st.buffer = <<>> THEN [st EXCEPT !.escape_next = FALSE]
    ELSE [st EXCEPT !.frames = @ \o parse(st.buffer),
                    !.buffer = <<>>,
                    !.escape_next = FALSE]

\* one iteration of the loop of process
process_byte(st, byte) ==
    IF st.escape_next
    THEN LET a == [st EXCEPT !.buffer = Append(@, byte), !.escape_next = FALSE]
         IN  IF Overflow(a) THEN flush_buffer(a) ELSE a
    ELSE IF byte = DLE
    THEN [st EXCEPT !.buffer = Append(@, byte), !.escape_next = TRUE]
    ELSE IF byte = SOF
    THEN [(IF ~st.in_frame THEN flush_as_user_data(st) ELSE discard_buffer(st))
            EXCEPT !.in_frame = TRUE]
    ELSE IF byte = EOF
    THEN [try_parse_frame(st) EXCEPT !.in_frame = FALSE]
    ELSE LET a == [st EXCEPT !.buffer = Append(@, byte)]
         IN  IF Overflow(a) THEN flush_buffer(a) ELSE a

\* mutant: a process() that forgets a pending escape when it is called
process_ForgetsEscape(st, data) ==
    LET Step(s, i) == process_byte(s, data[i])
    IN  ForRange(Step, [st EXCEPT !.escape_next = FALSE], 1, Len(data))

process(st, data) ==
    LET Step(s, i) == process_byte(s, data[i])
    IN  ForRange(Step, st, 1, Len(data))

\* mutant: on_timeout that discards the buffer whatever in_frame is
on_timeout_Discard(st) == [discard_buffer(st) EXCEPT !.in_frame = FALSE]

\* mutant: on_timeout that passes the buffer to on_user_data whatever in_frame is
on_timeout_Flush(st) == [flush_as_user_data(st) EXCEPT !.in_frame = FALSE]

on_timeout(st) ==
    [(IF ~st.in_frame THEN flush_as_user_data(st) ELSE discard_buffer(st))
        EXCEPT !.in_frame = FALSE]

\* mutant: has_pending_data that is always true
has_pending_data_Always(st) == TRUE

has_pending_data(st) == Len(st.buffer) > 0

-----------------------------------------------------------------------------
(* The state after construction of a SerialProxy and of a ProxyManager      *)

\* constants.py
HEARTBEAT_TIMEOUT == 15

\* clock ticks in a second
TicksPerSecond == 5

\* a field of the link's STATE_DB hash that another program owns
OwnerField == "remote_device"

\* the links and the baud rates of CONFIG_DB
Links == {"1", "2"}
Bauds == {9600, 115200, 300}

\* SerialProxy.__init__, with the store and the file system around it
ProxyNew ==
    /\ now = 0
    /\ phase = "new"
    /\ running = FALSE
    /\ open_fds = {}
    /\ readers = {}
    /\ fs_symlink \in {"none", "stale"}
    /\ pty_symlink = FALSE
    /\ has_filter = FALSE
    /\ timeout_handle = <<>>
    /\ heartbeat_handle = <<>>
    /\ current_oper_state = "none"
    /\ last_data_activity = 0
    /\ state_db = [f \in {OwnerField} |-> "x"]
    /\ tasks = <<>>
    /\ pty_out = <<>>
    /\ issued = <<>>
    /\ last_heartbeat = -1
    /\ asked = "none"
    /\ silence_at_down = -1
    /\ start_fault = "none"
    /\ hdel_done = FALSE
    /\ reads = 0
    /\ read_failed = FALSE

\* ProxyManager.__init__, with an empty CONFIG_DB
ProxyManagerNew ==
    /\ proxies = [l \in Links |-> <<>>]
    /\ after_sync = FALSE
    /\ manager_pc = "start"
    /\ manager_running = FALSE
    /\ subscribed = FALSE
    /\ events = 0
    /\ redis_configs = [l \in Links |-> <<>>]
    /\ todo = {}
    /\ stopping = {}
    /\ db_closed = FALSE
    /\ stop_flag = FALSE
    /\ late_op = FALSE
    /\ store_failed = FALSE
    /\ missed = FALSE
    /\ pass_enabled = FALSE
    /\ all_started = TRUE
    /\ prev_configs = [l \in Links |-> <<>>]
    /\ stops = [l \in Links |-> 0]
    /\ starts = [l \in Links |-> 0]
    /\ live = [l \in Links |-> 0]
    /\ changes = 0

\* no operation of the codec applied yet
CodecNew ==
    /\ c_bytes = <<>>
    /\ c_ops = <<>>
    /\ c_parsed = <<>>
    /\ c_frames = <<>>
    /\ c_user = <<>>

\* DTEHeartbeat.__init__
EmitterNew ==
    /\ dte_running = FALSE
    /\ dte_enabled = FALSE
    /\ dte_seq = 0
    /\ dte_heartbeat_task = "none"
    /\ dte_subscribed = FALSE
    /\ dte_events = 0
    /\ dte_last_seq = -1
    /\ dte_missed = FALSE
    /\ dte_pc = "new"
    /\ dte_since = 0

\* the manager constructed over an empty CONFIG_DB
ManagerNew ==
    /\ ProxyManagerNew
    /\ config = [l \in Links |-> <<>>]
    /\ enabled = FALSE

-----------------------------------------------------------------------------
(* The extractor on its own: a fresh FrameFilter, fed chunk by chunk.       *)

\* number of calls made on the extractor
MaxOps == 4

\* an ordinary byte ("A")
Plain == 65

Fill(n) == [i \in 1..n |-> Plain]

\* the frames the environment sends
Frames ==
    { create_heartbeat(0),
      Frame(PROTOCOL_VERSION, 2, 0, 2, <<SOF, EOF, DLE>>),
      Frame(PROTOCOL_VERSION, 1, 0, HEARTBEAT, Fill(MAX_FRAME_BUFFER_SIZE - 9)),
      Frame(PROTOCOL_VERSION, 1, 0, HEARTBEAT, Fill(MAX_FRAME_BUFFER_SIZE - 8)) }

\* build, tabulated over Frames
Built == [f \in Frames |-> build(f)]

\* the chunks of other bytes the environment sends
Chunks ==
    { <<SOF>>, <<EOF>>, <<DLE>>, <<Plain>>, Fill(MAX_FRAME_BUFFER_SIZE - 2) }

\* the FrameFilter of the variables, with no callback made yet
Filter ==
    [buffer |-> buffer, escape_next |-> escape_next, in_frame |-> in_frame,
     frames |-> <<>>, user |-> <<>>]

\* the variables after a call that left the filter in state st
FilterBecomes(st) ==
    /\ buffer' = st.buffer
    /\ escape_next' = st.escape_next
    /\ in_frame' = st.in_frame
    /\ frames_out' = frames_out \o st.frames
    /\ user_out' = user_out \o st.user

FilterInit ==
    /\ buffer = <<>>
    /\ escape_next = FALSE
    /\ in_frame = FALSE
    /\ frames_out = <<>>
    /\ user_out = <<>>
    /\ oplog = <<>>
    /\ ProxyNew /\ fs_symlink = "none"
    /\ ManagerNew
    /\ CodecNew /\ c_frame = <<>> /\ c_x = <<>>
    /\ EmitterNew /\ dte_flag = FALSE

\* process(data) for a chunk of bytes
Process(data) ==
    /\ Len(oplog) < MaxOps
    /\ FilterBecomes(process(Filter, data))
    /\ oplog' = Append(oplog, [op |-> "process", data |-> data, frame |-> <<>>])
    /\ UNCHANGED <<pvars, svars, cvars, evars>>

\* process(f.build())
ProcessFrame(f) ==
    /\ Len(oplog) < MaxOps
    /\ FilterBecomes(process(Filter, Built[f]))
    /\ oplog' = Append(oplog, [op |-> "process", data |-> Built[f], frame |-> <<f>>])
    /\ UNCHANGED <<pvars, svars, cvars, evars>>

OnTimeout ==
    /\ Len(oplog) < MaxOps
    /\ FilterBecomes(on_timeout(Filter))
    /\ oplog' = Append(oplog, [op |-> "timeout", data |-> <<>>, frame |-> <<>>])
    /\ UNCHANGED <<pvars, svars, cvars, evars>>

FilterNext ==
    \/ \E data \in Chunks : Process(data)
    \/ \E f \in Frames : ProcessFrame(f)
    \/ OnTimeout

FilterSpec == FilterInit /\ [][FilterNext]_vars

-----------------------------------------------------------------------------
(* What was fed, read off oplog *)

RECURSIVE Concat(_)
Concat(ss) == IF ss = <<>> THEN <<>> ELSE Head(ss) \o Concat(Tail(ss))

\* the bytes of the process calls lo..hi of oplog
FedBetween(lo, hi) ==
    Concat([i \in 1..(IF hi >= lo THEN hi - lo + 1 ELSE 0) |-> oplog[lo + i - 1].data])

Fed == FedBetween(1, Len(oplog))

\* process calls only, then one on_timeout()
FedThenTimeout ==
    /\ Len(oplog) >= 1
    /\ oplog[Len(oplog)].op = "timeout"
    /\ \A i \in 1..(Len(oplog) - 1) : oplog[i].op = "process"

\* the length of the run of DLE bytes that ends just before index i of data
RECURSIVE DleRun(_, _)
DleRun(data, i) ==
    IF i > 1 /\ data[i - 1] = DLE THEN 1 + DleRun(data, i - 1) ELSE 0

\* data[i] is itself escaped by a DLE before it
Escaped(data, i) == DleRun(data, i) % 2 = 1

\* data has a SOF or an EOF that no DLE escapes
HasBareDelimiter(data) ==
    \E i \in 1..Len(data) : data[i] \in {SOF, EOF} /\ ~Escaped(data, i)

\* data ends in a DLE that escapes the byte to come
EndsInEscape(data) == Escaped(data, Len(data) + 1)

HasSofRun(data) ==
    \E i \in 1..(Len(data) - 2) : SubSeq(data, i, i + 2) = SOF_SEQUENCE

NoDelimiter(data) == \A i \in 1..Len(data) : data[i] \notin {SOF, EOF}

\* oplog is: process calls of plain chunks, process(build(f)) at index k,
\* process calls of plain chunks, one on_timeout()
AroundFrame(k) ==
    /\ FedThenTimeout
    /\ k \in 1..(Len(oplog) - 1)
    /\ \A i \in 1..(Len(oplog) - 1) : (oplog[i].frame # <<>>) <=> (i = k)

UserPrefix(k) == FedBetween(1, k - 1)
UserSuffix(k) == FedBetween(k + 1, Len(oplog) - 1)

\* the frame's bytes between the SOF run and the EOF run
EscapedContent(f) == escape_data(content_with_crc(f))

-----------------------------------------------------------------------------
(* C1: after any sequence of process() and on_timeout() calls the buffer    *)
(* holds at most MAX_FRAME_BUFFER_SIZE bytes.                               *)
C1_BufferBounded == Len(buffer) <= MAX_FRAME_BUFFER_SIZE

\* the buffer is full, a DLE having been appended without an overflow test
C1_Witness == Len(buffer) = MAX_FRAME_BUFFER_SIZE /\ escape_next

(* C2 as stated: an input with no run of three SOF bytes, then on_timeout(): *)
(* the user bytes are the input and on_frame is not called.                 *)
C2_AsStated ==
    (FedThenTimeout /\ ~HasSofRun(Fed))
        => (Concat(user_out) = Fed /\ frames_out = <<>>)

(* C2 amended: an input in which every SOF and every EOF byte is escaped by *)
(* a DLE, then on_timeout(): the user bytes are the input and on_frame is   *)
(* not called.                                                              *)
C2_NoLossOutOfFrame ==
    (FedThenTimeout /\ ~HasBareDelimiter(Fed))
        => (Concat(user_out) = Fed /\ frames_out = <<>>)

\* such an input, long enough to overflow the buffer, has been fed and timed out
C2_Witness ==
    /\ FedThenTimeout
    /\ ~HasBareDelimiter(Fed)
    /\ Len(Fed) >= MAX_FRAME_BUFFER_SIZE
    /\ Len(user_out) >= 2

(* C3 as stated: user_prefix || Build(f) || user_suffix, no SOF or EOF in   *)
(* prefix and suffix, then on_timeout(): one on_frame(f), and the user      *)
(* bytes are user_prefix || user_suffix.                                    *)
C3_AsStated ==
    \A k \in 1..Len(oplog) :
        (/\ AroundFrame(k)
         /\ NoDelimiter(UserPrefix(k))
         /\ NoDelimiter(UserSuffix(k)))
            => (/\ frames_out = oplog[k].frame
                /\ Concat(user_out) = UserPrefix(k) \o UserSuffix(k))

(* C3 amended: the same, for a frame whose escaped content is shorter than  *)
(* MAX_FRAME_BUFFER_SIZE and a user_prefix that does not end in a DLE that  *)
(* escapes the next byte.                                                   *)
C3_FrameIsolation ==
    \A k \in 1..Len(oplog) :
        (/\ AroundFrame(k)
         /\ NoDelimiter(UserPrefix(k))
         /\ NoDelimiter(UserSuffix(k))
         /\ ~EndsInEscape(UserPrefix(k))
         /\ Len(EscapedContent(oplog[k].frame[1])) < MAX_FRAME_BUFFER_SIZE)
            => (/\ frames_out = oplog[k].frame
                /\ Concat(user_out) = UserPrefix(k) \o UserSuffix(k))

\* a frame with user bytes before and after it went through, on the largest
\* content the buffer takes
C3_Witness ==
    \E k \in 1..Len(oplog) :
        /\ AroundFrame(k)
        /\ UserPrefix(k) # <<>> /\ NoDelimiter(UserPrefix(k))
        /\ UserSuffix(k) # <<>> /\ NoDelimiter(UserSuffix(k))
        /\ ~EndsInEscape(UserPrefix(k))
        /\ Len(EscapedContent(oplog[k].frame[1])) = MAX_FRAME_BUFFER_SIZE - 1
        /\ frames_out = oplog[k].frame

\* the step is a call of on_timeout()
TimeoutStep ==
    /\ Len(oplog') = Len(oplog) + 1
    /\ oplog'[Len(oplog')].op = "timeout"

(* C22: on_timeout() called in-frame passes nothing to on_user_data; called *)
(* out of frame it passes the buffered bytes, if there are any; it calls    *)
(* on_frame in neither case, and leaves the buffer empty and in_frame       *)
(* false.                                                                   *)
C22_TimeoutFlushesOrDiscards ==
    [][TimeoutStep =>
          /\ buffer' = <<>>
          /\ ~in_frame'
          /\ frames_out' = frames_out
          /\ user_out' = IF ~in_frame /\ buffer # <<>>
                         THEN Append(user_out, buffer) ELSE user_out]_vars

\* SOF, a byte of a partial frame, then on_timeout(): nothing reached the user
C22_Witness ==
    /\ Len(oplog) = 3
    /\ oplog[1].data = <<SOF>> /\ oplog[2].data = <<Plain>>
    /\ oplog[3].op = "timeout"
    /\ user_out = <<>> /\ buffer = <<>> /\ ~in_frame

\* the step is process() of the single byte b
ByteStep(b) ==
    /\ Len(oplog') = Len(oplog) + 1
    /\ oplog'[Len(oplog')] = [op |-> "process", data |-> <<b>>, frame |-> <<>>]

(* C32: a SOF that no DLE escapes, received in-frame, discards the buffered  *)
(* partial frame (nothing of it reaches on_user_data) and leaves the         *)
(* extractor in-frame with an empty buffer; received out of frame it passes  *)
(* the whole buffer to on_user_data and puts the extractor in-frame; an EOF  *)
(* that no DLE escapes always leaves the extractor out of frame with an      *)
(* empty buffer.                                                             *)
C32_DelimiterEffects ==
    [][/\ (ByteStep(SOF) /\ ~escape_next) =>
             /\ buffer' = <<>> /\ in_frame' /\ ~escape_next'
             /\ frames_out' = frames_out
             /\ user_out' = IF ~in_frame /\ buffer # <<>>
                            THEN Append(user_out, buffer) ELSE user_out
       /\ (ByteStep(EOF) /\ ~escape_next) =>
             /\ buffer' = <<>> /\ ~in_frame' /\ ~escape_next'
             /\ user_out' = user_out]_vars

\* test_sof_in_frame_discards_previous_data: SOF, a byte, SOF
C32_Witness ==
    /\ Len(oplog) = 3
    /\ oplog[1].data = <<SOF>> /\ oplog[2].data = <<Plain>>
    /\ oplog[3].data = <<SOF>>
    /\ user_out = <<>> /\ buffer = <<>> /\ in_frame

-----------------------------------------------------------------------------
(* The codec on its own: build, parse, escape_data and unescape_data        *)
(* applied to a frame f or to a byte sequence x, and a fresh FrameFilter    *)
(* fed the bytes between a SOF run and an EOF run.                          *)

MaxLen == 3

\* the byte sequences x: every sequence of special and ordinary bytes up to
\* MaxLen, and frame contents (header and payload, without CRC) whose length
\* field is the payload's length, is more, and is less
CodecInputs ==
    UNION { [1..n -> ESCAPABLE_CHARS \cup {Plain}] : n \in 0..MaxLen }
    \cup { <<PROTOCOL_VERSION, 1, 0, HEARTBEAT, 1, Plain>>,
           <<PROTOCOL_VERSION, 1, 0, HEARTBEAT, 2, Plain>>,
           <<PROTOCOL_VERSION, 1, 0, HEARTBEAT, 0, Plain>> }

\* the frames f
CodecFrames ==
    { create_heartbeat(0),
      create_heartbeat(124),
      Frame(PROTOCOL_VERSION, 2, 0, 2, <<SOF, EOF, DLE>>),
      Frame(SOF, DLE, EOF, 255, <<SOF, SOF, SOF>>),
      Frame(PROTOCOL_VERSION, 255, 255, HEARTBEAT, Fill(255)) }

CodecInit ==
    /\ buffer = <<>>
    /\ escape_next = FALSE
    /\ in_frame = FALSE
    /\ frames_out = <<>>
    /\ user_out = <<>>
    /\ oplog = <<>>
    /\ ProxyNew /\ fs_symlink = "none"
    /\ ManagerNew
    /\ EmitterNew /\ dte_flag = FALSE
    /\ CodecNew
    /\ \/ c_frame \in {<<f>> : f \in CodecFrames} /\ c_x = <<>>
       \/ c_frame = <<>> /\ c_x \in CodecInputs

LastOp == IF c_ops = <<>> THEN "none" ELSE c_ops[Len(c_ops)]

\* f.build()
Build ==
    /\ c_ops = <<>> /\ c_frame # <<>>
    /\ c_bytes' = build(c_frame[1])
    /\ c_ops' = <<"build">>
    /\ UNCHANGED <<fvars, pvars, svars, evars, c_frame, c_x, c_parsed,
                   c_frames, c_user>>

\* data[3:-3], as the tests take the SOF run and the EOF run off
Strip ==
    /\ LastOp = "build"
    /\ c_bytes' = SubSeq(c_bytes, SOF_LEN + 1, Len(c_bytes) - EOF_LEN)
    /\ c_ops' = Append(c_ops, "strip")
    /\ UNCHANGED <<fvars, pvars, svars, evars, c_frame, c_x, c_parsed,
                   c_frames, c_user>>

\* bit k of byte i is flipped on the line
FlipBit(i, k) ==
    /\ LastOp = "strip"
    /\ i \in 1..Len(c_bytes)
    /\ c_bytes' = [c_bytes EXCEPT ![i] = BitXor(@, 2 ^ k)]
    /\ c_ops' = Append(c_ops, "flip")
    /\ UNCHANGED <<fvars, pvars, svars, evars, c_frame, c_x, c_parsed,
                   c_frames, c_user>>

\* a sender puts x on the line as a frame's content: its CRC appended, and
\* escaped, as build does
Forge ==
    /\ c_ops = <<>> /\ c_frame = <<>> /\ Len(c_x) >= 5
    /\ c_bytes' = LET crc == crc16_modbus(c_x)
                  IN  escape_data(c_x \o <<(crc \div 256), (crc % 256)>>)
    /\ c_ops' = <<"forge">>
    /\ UNCHANGED <<fvars, pvars, svars, evars, c_frame, c_x, c_parsed,
                   c_frames, c_user>>

\* Frame.parse(buffer)
Parse ==
    /\ LastOp \in {"strip", "flip", "forge"}
    /\ c_parsed' = parse(c_bytes)
    /\ c_ops' = Append(c_ops, "parse")
    /\ UNCHANGED <<fvars, pvars, svars, evars, c_frame, c_x, c_bytes,
                   c_frames, c_user>>

\* FrameFilter().process(SOF_SEQUENCE + buffer + EOF_SEQUENCE)
Extract ==
    /\ LastOp \in {"strip", "flip", "forge"}
    /\ \E st \in {process(NewFilter, SOF_SEQUENCE \o c_bytes \o EOF_SEQUENCE)} :
           c_frames' = st.frames /\ c_user' = st.user
    /\ c_ops' = Append(c_ops, "extract")
    /\ UNCHANGED <<fvars, pvars, svars, evars, c_frame, c_x, c_bytes,
                   c_parsed>>

\* FrameFilter().process(buffer + EOF_SEQUENCE): the same bytes with no SOF
\* before them
ExtractUnopened ==
    /\ LastOp \in {"strip", "forge"}
    /\ \E st \in {process(NewFilter, c_bytes \o EOF_SEQUENCE)} :
           c_frames' = st.frames /\ c_user' = st.user
    /\ c_ops' = Append(c_ops, "unopened")
    /\ UNCHANGED <<fvars, pvars, svars, evars, c_frame, c_x, c_bytes,
                   c_parsed>>

\* escape_data(x)
Escape ==
    /\ c_ops = <<>> /\ c_frame = <<>>
    /\ c_bytes' = escape_data(c_x)
    /\ c_ops' = <<"escape">>
    /\ UNCHANGED <<fvars, pvars, svars, evars, c_frame, c_x, c_parsed,
                   c_frames, c_user>>

\* unescape_data(escape_data(x))
Unescape ==
    /\ LastOp = "escape"
    /\ c_bytes' = unescape_data(c_bytes)
    /\ c_ops' = Append(c_ops, "unescape")
    /\ UNCHANGED <<fvars, pvars, svars, evars, c_frame, c_x, c_parsed,
                   c_frames, c_user>>

CodecNext ==
    \/ Build
    \/ Strip
    \/ \E i \in 1..Len(c_bytes), k \in 0..7 : FlipBit(i, k)
    \/ Forge
    \/ Parse
    \/ Extract
    \/ ExtractUnopened
    \/ Escape
    \/ Unescape

CodecSpec == CodecInit /\ [][CodecNext]_vars

\* the unescaped content of a buffer without its two CRC bytes
ContentOf(buf) ==
    LET u == unescape_data(buf)
    IN  IF Len(u) >= 2 THEN SubSeq(u, 1, Len(u) - 2) ELSE <<>>

\* the content is not 5 header bytes and as many payload bytes as the length
\* field (the fifth header byte) says
LengthMismatch(buf) ==
    LET content == ContentOf(buf)
    IN  Len(content) < 5 \/ Len(content) # 5 + content[5]

\* the two bytes after the content are not the content's CRC, high byte first
CrcMismatch(buf) ==
    LET u == unescape_data(buf)
        crc == crc16_modbus(ContentOf(buf))
    IN  Len(u) < 2 \/ SubSeq(u, Len(u) - 1, Len(u)) # <<crc \div 256, crc % 256>>

\* C24: Parse fails for every buffer whose unescaped content, the two CRC bytes
\* removed, has a length other than 5 + the length field, also when the CRC
\* matches.
C24_LengthMismatchRejected ==
    (LastOp = "parse" /\ LengthMismatch(c_bytes)) => c_parsed = <<>>

\* a corrupt frame body: truncated, CRC mismatch or length mismatch
Corrupt(buf) ==
    Len(unescape_data(buf)) < 7 \/ CrcMismatch(buf) \/ LengthMismatch(buf)

\* C23: for a corrupt frame (the content between the SOF run and the EOF run
\* has a CRC mismatch, a length mismatch or is truncated) the extractor calls
\* on_frame zero times and passes none of the frame body to on_user_bytes.
C23_CorruptFrameSurfacesNothing ==
    (LastOp = "extract" /\ Corrupt(c_bytes)) => (c_frames = <<>> /\ c_user = <<>>)

\* C25: the codec round-trips: for every frame f with header fields in 0..255
\* and a payload of at most 255 bytes, SOF, EOF and DLE bytes in it included,
\* Parse of Build(f) without its SOF run and EOF run is f.
C25_RoundTrip ==
    c_ops = <<"build", "strip", "parse">> => c_parsed = c_frame

C25_Witness ==
    /\ c_ops = <<"build", "strip", "parse">>
    /\ c_frame # <<>> /\ c_frame[1].payload = <<SOF, EOF, DLE>>
    /\ c_parsed = c_frame

\* C26: unescape(escape(x)) = x for every byte sequence x, and escape(x) = x
\* for every x that has no SOF, EOF or DLE byte.
C26_EscapeRoundTrip ==
    /\ c_ops = <<"escape", "unescape">> => c_bytes = c_x
    /\ (/\ c_ops = <<"escape">>
        /\ \A i \in 1..Len(c_x) : c_x[i] \notin ESCAPABLE_CHARS) => c_bytes = c_x

C26_Witness ==
    /\ c_ops = <<"escape", "unescape">>
    /\ c_x = <<DLE, SOF, EOF>>
    /\ c_bytes = c_x

\* C27: for every frame f and every single-bit flip of Build(f) between the
\* SOF run and the EOF run, Parse of the flipped content fails or returns a
\* frame that differs from f.
C27_BitFlipDetected ==
    c_ops = <<"build", "strip", "flip", "parse">> => c_parsed # c_frame

\* the positions in data where a run of SOF_LEN consecutive SOF bytes starts
SofRuns(data) ==
    { i \in 1..(Len(data) - SOF_LEN + 1) :
          SubSeq(data, i, i + SOF_LEN - 1) = SOF_SEQUENCE }

\* C28: Build(f) starts with three SOF bytes, ends with three EOF bytes, and
\* no other run of three consecutive SOF bytes appears in it.
C28_BuildDelimiters ==
    LastOp = "build" =>
        /\ Len(c_bytes) >= SOF_LEN + EOF_LEN
        /\ SubSeq(c_bytes, 1, SOF_LEN) = SOF_SEQUENCE
        /\ SubSeq(c_bytes, Len(c_bytes) - EOF_LEN + 1, Len(c_bytes)) = EOF_SEQUENCE
        /\ SofRuns(c_bytes) = {1}

C28_Witness ==
    /\ LastOp = "build"
    /\ c_frame[1].payload = <<SOF, SOF, SOF>>
    /\ SofRuns(c_bytes) = {1}

(* C38: the extractor calls on_frame only for content that was opened by   *)
(* an unescaped SOF: when the terminating EOF arrives while in_frame is     *)
(* false, no frame is reported, so bytes not preceded by SOF are never      *)
(* taken for a frame.                                                       *)
C38_FrameNeedsSof ==
    LastOp = "unopened" => c_frames = <<>>

-----------------------------------------------------------------------------
(* The extractor fed one byte sequence in pieces: c_x is the whole sequence, *)
(* c_bytes what has been fed, c_ops has one entry for each process() call   *)
(* made.                                                                    *)

\* the byte sequences: every sequence of special and ordinary bytes up to
\* MaxLen, three built frames in a row, and a built frame between user bytes
ChunkInputs ==
    UNION { [1..n -> ESCAPABLE_CHARS \cup {Plain}] : n \in 0..MaxLen }
    \cup { build(create_heartbeat(0))
             \o build(Frame(PROTOCOL_VERSION, 2, 0, 2, <<SOF, EOF, DLE>>))
             \o build(create_heartbeat(1)),
           <<Plain, DLE>> \o build(create_heartbeat(0)) \o <<Plain, SOF>> }

ChunkInit ==
    /\ buffer = <<>>
    /\ escape_next = FALSE
    /\ in_frame = FALSE
    /\ frames_out = <<>>
    /\ user_out = <<>>
    /\ oplog = <<>>
    /\ ProxyNew /\ fs_symlink = "none"
    /\ ManagerNew
    /\ EmitterNew /\ dte_flag = FALSE
    /\ CodecNew /\ c_frame = <<>>
    /\ c_x \in ChunkInputs

\* process() with the next k bytes; c_bytes is what has been fed
FeedChunk(k) ==
    /\ k \in 1..(Len(c_x) - Len(c_bytes))
    /\ FilterBecomes(process(Filter, SubSeq(c_x, Len(c_bytes) + 1, Len(c_bytes) + k)))
    /\ c_bytes' = SubSeq(c_x, 1, Len(c_bytes) + k)
    /\ c_ops' = Append(c_ops, "process")
    /\ UNCHANGED <<oplog, pvars, svars, evars, c_frame, c_x, c_parsed,
                   c_frames, c_user>>

ChunkNext == \E k \in 1..Len(c_x) : FeedChunk(k)

ChunkSpec == ChunkInit /\ [][ChunkNext]_vars

(* C34: the extractor does not depend on how its input is cut into          *)
(* process() calls: for every byte sequence and every way of cutting it into *)
(* consecutive process() calls, down to one byte a call, the on_frame        *)
(* events, the on_user_data callbacks and the extractor's buffer, in_frame   *)
(* and escape_next are those of one process() call with the whole sequence;  *)
(* N built frames in a row give N on_frame events in input order.            *)
C34_ChunkingIndependent ==
    c_bytes = c_x =>
        \E st \in {process(NewFilter, c_x)} :
            /\ st.frames = frames_out
            /\ st.user = user_out
            /\ st.buffer = buffer
            /\ st.in_frame = in_frame
            /\ st.escape_next = escape_next

\* three built frames fed one byte a call came out in input order
C34_Witness ==
    /\ c_bytes = c_x
    /\ Len(c_ops) = Len(c_x)
    /\ frames_out = <<create_heartbeat(0),
                      Frame(PROTOCOL_VERSION, 2, 0, 2, <<SOF, EOF, DLE>>),
                      create_heartbeat(1)>>
    /\ user_out = <<>>

-----------------------------------------------------------------------------
(* SerialProxy (serial_proxy.py) on one link, with the STATE_DB projection  *)
(* of DceDbHelper (dce.py).  Time is counted in ticks; a timer callback     *)
(* runs when its deadline has come, and the clock does not pass a deadline  *)
(* whose callback has not run.  _on_pty_read (pty to serial device) touches *)
(* nothing of this state and is left out.                                   *)

\* chunks read from the serial device
MaxReads == 2

\* the clock stops here (seconds)
MaxTime == 30

\* the clock advances to the next multiple of this (seconds), or to the
\* deadline of a timer that comes before it
TickStep == 5

\* the baud rate of the link
ProxyBaud == 9600

\* _calculate_filter_timeout: 10 / baud * MAX_FRAME_BUFFER_SIZE * 3 seconds
calculate_filter_timeout(baud) ==
    (10 * MAX_FRAME_BUFFER_SIZE * 3 * TicksPerSecond) \div baud

\* loop.call_later(delay, ...): the handle of a timer due delay ticks from now
call_later(delay) == <<now + delay>>

\* the timer of handle h is armed and its deadline has come
Due(h) == h # <<>> /\ h[1] <= now

\* DceDbHelper.update_state when STATE_DB answers: hset of the two fields
db_update_state(db, oper_state, timestamp) ==
    [f \in DOMAIN db \cup {"oper_state", "last_state_change"} |->
        IF f = "oper_state" THEN oper_state
        ELSE IF f = "last_state_change" THEN timestamp
        ELSE db[f]]

\* mutant: cleanup_state that deletes the link's key
db_cleanup_state_DelKey(db) ==
    [f \in {} |-> db[f]]

\* DceDbHelper.cleanup_state when STATE_DB answers: hdel of the two fields
db_cleanup_state(db) ==
    [f \in DOMAIN db \ {"oper_state", "last_state_change"} |-> db[f]]

\* the part of the proxy that the frame callback and the liveness handler
\* work on
Liveness ==
    [heartbeat_handle |-> heartbeat_handle,
     current_oper_state |-> current_oper_state,
     tasks |-> tasks, issued |-> issued,
     last_heartbeat |-> last_heartbeat, asked |-> asked]

LivenessBecomes(p) ==
    /\ heartbeat_handle' = p.heartbeat_handle
    /\ current_oper_state' = p.current_oper_state
    /\ tasks' = p.tasks
    /\ issued' = p.issued
    /\ last_heartbeat' = p.last_heartbeat
    /\ asked' = p.asked

\* mutant: _update_state without the test that the state has changed
update_state_NoDedup(p, oper_state) ==
    [p EXCEPT !.current_oper_state = oper_state,
              !.tasks = Append(@, oper_state),
              !.issued = Append(@, oper_state)]

\* SerialProxy._update_state
update_state(p, oper_state) ==
    IF oper_state = p.current_oper_state THEN p
    ELSE [p EXCEPT !.current_oper_state = oper_state,
                   !.tasks = Append(@, oper_state),
                   !.issued = Append(@, oper_state)]

\* SerialProxy._reset_heartbeat_timer
reset_heartbeat_timer(p) ==
    [p EXCEPT !.heartbeat_handle = call_later(HEARTBEAT_TIMEOUT * TicksPerSecond)]

\* mutant: _on_frame_received that takes a frame of any type for a heartbeat
on_frame_received_AnyType(p, frame) ==
    [update_state(reset_heartbeat_timer(p), "up")
        EXCEPT !.last_heartbeat = now, !.asked = "up"]

\* SerialProxy._on_frame_received
on_frame_received(p, frame) ==
    IF is_heartbeat(frame)
    THEN [update_state(reset_heartbeat_timer(p), "up")
            EXCEPT !.last_heartbeat = now, !.asked = "up"]
    ELSE p

\* _on_frame_received for each frame that one process() call hands over
RECURSIVE on_frames(_, _)
on_frames(p, frames) ==
    IF frames = <<>> THEN p
    ELSE on_frames(on_frame_received(p, Head(frames)), Tail(frames))

\* mutant: the liveness handler takes any time since the last byte as activity
has_data_activity_Always(t) == t >= last_data_activity

\* mutant: the liveness handler's test with <= for <
has_data_activity_Inclusive(t) ==
    t - last_data_activity <= HEARTBEAT_TIMEOUT * TicksPerSecond

\* the test of _on_heartbeat_timeout_triggered for data activity at time t
has_data_activity(t) ==
    t - last_data_activity < HEARTBEAT_TIMEOUT * TicksPerSecond

\* the steps of start() that can raise, in the order start() takes them
\* ("add_reader" is the second add_reader call)
StartOrder ==
    <<"openpty", "open", "configure_serial", "configure_pty", "add_reader",
      "call_later">>

Raises(fault) == \E i \in 1..Len(StartOrder) : StartOrder[i] = fault

\* the faults of start(): "none", a step that raises, or a call inside
\* _create_symlink that raises there ("unlink" of what is at the path,
\* "symlink")
StartFaults ==
    {"none", "unlink", "symlink"} \cup {StartOrder[i] : i \in 1..Len(StartOrder)}

IndexOf(step) == CHOOSE i \in 1..Len(StartOrder) : StartOrder[i] = step

\* start() with this fault completes the step
Past(fault, step) == ~Raises(fault) \/ IndexOf(step) < IndexOf(fault)

\* SerialProxy.start up to its return, or up to the await of stop() in its
\* except clause (stop()'s first statement included)
Start(fault) ==
    /\ phase = "new"
    /\ fault = "unlink" => fs_symlink = "stale"
    /\ start_fault' = fault
    /\ open_fds' = (IF Past(fault, "openpty") THEN {"pty_master", "pty_slave"} ELSE {})
                     \cup (IF Past(fault, "open") THEN {"ser_fd"} ELSE {})
    /\ has_filter' = Past(fault, "configure_pty")
    /\ readers' = IF Past(fault, "add_reader") THEN {"ser_fd", "pty_master"}
                  ELSE IF fault = "add_reader" THEN {"ser_fd"}
                  ELSE {}
    /\ running' = ~Raises(fault)
    /\ IF ~Past(fault, "add_reader")
       THEN UNCHANGED <<fs_symlink, pty_symlink>>
       ELSE IF fault = "unlink"
       THEN fs_symlink' = fs_symlink /\ pty_symlink' = FALSE
       ELSE IF fault = "symlink"
       THEN fs_symlink' = "none" /\ pty_symlink' = FALSE
       ELSE fs_symlink' = "ours" /\ pty_symlink' = TRUE
    /\ heartbeat_handle' = IF Raises(fault) THEN <<>>
                           ELSE call_later(HEARTBEAT_TIMEOUT * TicksPerSecond)
    /\ phase' = IF Raises(fault) THEN "rollback" ELSE "started"
    /\ UNCHANGED <<buffer, escape_next, in_frame, frames_out, user_out, oplog,
                   now, timeout_handle, current_oper_state, last_data_activity,
                   state_db, tasks, pty_out, issued, last_heartbeat,
                   asked, silence_at_down, hdel_done, reads, read_failed, svars, cvars, evars>>

\* the proxy's filter after a call that left it in state st
ProxyFilterBecomes(st) ==
    /\ buffer' = st.buffer
    /\ escape_next' = st.escape_next
    /\ in_frame' = st.in_frame
    /\ UNCHANGED <<frames_out, user_out>>

\* SerialProxy._on_serial_read with data read from the device; the filter's
\* callbacks are _on_frame_received and _on_user_data_received
on_serial_read(data) ==
    /\ "ser_fd" \in readers
    /\ running /\ has_filter
    /\ ~read_failed
    /\ reads' = reads + 1
    /\ last_data_activity' = now
    /\ \E st \in {process(Filter, data)} :
           /\ ProxyFilterBecomes(st)
           /\ pty_out' = IF "pty_master" \in open_fds THEN pty_out \o st.user
                         ELSE pty_out
           /\ timeout_handle' =
                 IF has_pending_data(st)
                 THEN call_later(calculate_filter_timeout(ProxyBaud))
                 ELSE <<>>
           /\ LivenessBecomes(on_frames(Liveness, st.frames))
    /\ UNCHANGED <<now, phase, running, open_fds, readers, fs_symlink,
                   pty_symlink, has_filter, state_db,
                   silence_at_down, start_fault, hdel_done, read_failed, svars, cvars, evars>>

\* a read of the device, up to MaxReads of them
SerialRead(data) ==
    /\ reads < MaxReads
    /\ on_serial_read(data)
    /\ UNCHANGED oplog

\* SerialProxy._on_serial_read when os.read raises OSError because the device
\* was removed: the except clause passes, and every read after it fails too
SerialReadFails ==
    /\ "ser_fd" \in readers
    /\ running /\ has_filter
    /\ ~read_failed
    /\ read_failed' = TRUE
    /\ UNCHANGED <<fvars, now, phase, running, open_fds, readers, fs_symlink,
                   pty_symlink, has_filter, timeout_handle, heartbeat_handle,
                   current_oper_state, last_data_activity, state_db, tasks,
                   pty_out, issued, last_heartbeat, asked, silence_at_down,
                   start_fault, hdel_done, reads, svars, cvars, evars>>

\* SerialProxy._on_timeout, the filter timer's callback
FilterTimeout ==
    /\ Due(timeout_handle)
    /\ timeout_handle' = <<>>
    /\ IF ~running \/ ~has_filter
       THEN UNCHANGED <<buffer, escape_next, in_frame, frames_out, user_out,
                        pty_out>>
       ELSE LET st == on_timeout(Filter)
            IN  /\ ProxyFilterBecomes(st)
                /\ pty_out' = IF "pty_master" \in open_fds
                              THEN pty_out \o st.user ELSE pty_out
    /\ UNCHANGED <<oplog, now, phase, running, open_fds, readers, fs_symlink,
                   pty_symlink, has_filter, heartbeat_handle,
                   current_oper_state, last_data_activity, state_db,
                   tasks, issued, last_heartbeat, asked, silence_at_down,
                   start_fault, hdel_done, reads, read_failed, svars, cvars, evars>>

\* SerialProxy._on_heartbeat_timeout_triggered, the liveness timer's callback
HeartbeatTimeout ==
    /\ Due(heartbeat_handle)
    /\ LET p == [Liveness EXCEPT !.heartbeat_handle = <<>>]
       IN  IF ~running
           THEN LivenessBecomes(p) /\ UNCHANGED silence_at_down
           ELSE IF has_data_activity(now)
           THEN LivenessBecomes(reset_heartbeat_timer(p))
                /\ UNCHANGED silence_at_down
           ELSE /\ LivenessBecomes([update_state(p, "down") EXCEPT !.asked = "down"])
                /\ silence_at_down' = IF current_oper_state = "up"
                                      THEN now - last_data_activity
                                      ELSE silence_at_down
    /\ UNCHANGED <<fvars, now, phase, running, open_fds, readers, fs_symlink,
                   pty_symlink, has_filter, timeout_handle, last_data_activity,
                   state_db, pty_out, start_fault, hdel_done, reads,
                   read_failed, svars, cvars, evars>>

\* one task created by _update_state runs DceDbHelper.update_state; ok: the
\* hset is answered (otherwise it raises, and update_state logs that)
RunTask(ok) ==
    /\ tasks # <<>>
    /\ tasks' = Tail(tasks)
    /\ state_db' = IF ok
                   THEN db_update_state(state_db, Head(tasks),
                                        now \div TicksPerSecond)
                   ELSE state_db
    /\ asked' = IF ok THEN asked ELSE "none"
    /\ UNCHANGED <<fvars, now, phase, running, open_fds, readers, fs_symlink,
                   pty_symlink, has_filter, timeout_handle, heartbeat_handle,
                   current_oper_state, last_data_activity, pty_out,
                   issued, last_heartbeat, silence_at_down, start_fault,
                   hdel_done, reads, read_failed, svars, cvars, evars>>

\* SerialProxy.stop up to its await of cleanup_state
StopBegin ==
    /\ phase = "started"
    /\ running' = FALSE
    /\ phase' = "stopping"
    /\ UNCHANGED <<fvars, now, open_fds, readers, fs_symlink, pty_symlink,
                   has_filter, timeout_handle, heartbeat_handle,
                   current_oper_state, last_data_activity, state_db,
                   tasks, pty_out, issued, last_heartbeat, asked,
                   silence_at_down, start_fault, hdel_done, reads, read_failed, svars, cvars, evars>>

\* SerialProxy.stop from the end of cleanup_state to its own; ok: the hdel is
\* answered (otherwise it raises, and cleanup_state logs that)
StopFinish(ok) ==
    /\ phase \in {"stopping", "rollback"}
    /\ state_db' = IF ok THEN db_cleanup_state(state_db) ELSE state_db
    /\ hdel_done' = ok
    /\ fs_symlink' = IF pty_symlink /\ fs_symlink = "ours" THEN "none"
                     ELSE fs_symlink
    /\ pty_symlink' = FALSE
    /\ timeout_handle' = <<>>
    /\ heartbeat_handle' = <<>>
    /\ readers' = {}
    /\ IF has_filter /\ "pty_master" \in open_fds
       THEN /\ buffer' = <<>>
            /\ escape_next' = FALSE
            /\ in_frame' = FALSE
            /\ pty_out' = IF buffer # <<>> THEN Append(pty_out, buffer)
                          ELSE pty_out
       ELSE UNCHANGED <<buffer, escape_next, in_frame, pty_out>>
    /\ open_fds' = {}
    /\ phase' = IF phase = "rollback" THEN "failed" ELSE "stopped"
    /\ UNCHANGED <<frames_out, user_out, oplog, now, running, has_filter,
                   current_oper_state, last_data_activity, tasks,
                   issued, last_heartbeat, asked, silence_at_down, start_fault,
                   reads, read_failed, svars, cvars, evars>>

\* the smaller of two times
Earlier(a, b) == IF a <= b THEN a ELSE b

\* the deadline of handle h, or t when the timer is not armed
DeadlineOr(h, t) == IF h = <<>> THEN t ELSE h[1]

\* time passes: the loop has nothing to run (no task, no timer that is due)
Tick ==
    /\ phase = "started"
    /\ tasks = <<>>
    /\ ~Due(timeout_handle) /\ ~Due(heartbeat_handle)
    /\ now < MaxTime * TicksPerSecond
    /\ LET step == TickStep * TicksPerSecond
           t == ((now \div step) + 1) * step
       IN  now' = Earlier(DeadlineOr(timeout_handle, t),
                          Earlier(DeadlineOr(heartbeat_handle, t), t))
    /\ UNCHANGED <<fvars, phase, running, open_fds, readers, fs_symlink,
                   pty_symlink, has_filter, timeout_handle, heartbeat_handle,
                   current_oper_state, last_data_activity, state_db,
                   tasks, pty_out, issued, last_heartbeat, asked,
                   silence_at_down, start_fault, hdel_done, reads, read_failed, svars, cvars, evars>>

\* what the terminal side sends: a heartbeat, a frame of another type, a
\* plain byte, the start of a frame that never ends
SerialChunks ==
    { build(create_heartbeat(0)),
      build(Frame(PROTOCOL_VERSION, 2, 0, 2, <<SOF, EOF, DLE>>)),
      <<Plain>>,
      <<SOF, SOF, SOF, Plain>> }

Init ==
    /\ buffer = <<>>
    /\ escape_next = FALSE
    /\ in_frame = FALSE
    /\ frames_out = <<>>
    /\ user_out = <<>>
    /\ oplog = <<>>
    /\ ProxyNew
    /\ ManagerNew
    /\ CodecNew /\ c_frame = <<>> /\ c_x = <<>>
    /\ EmitterNew /\ dte_flag = FALSE

Next ==
    \/ \E fault \in StartFaults : Start(fault)
    \/ \E data \in SerialChunks : SerialRead(data)
    \/ SerialReadFails
    \/ FilterTimeout
    \/ HeartbeatTimeout
    \/ \E ok \in BOOLEAN : RunTask(ok)
    \/ StopBegin
    \/ \E ok \in BOOLEAN : StopFinish(ok)
    \/ Tick

Spec == Init /\ [][Next]_vars

-----------------------------------------------------------------------------
(* Claims about the link proxy (checked under Spec) *)

\* the proxy is started and running
Serving == phase = "started" /\ running

\* the fields of STATE_DB that the proxy owns
StateFields == {"oper_state", "last_state_change"}

\* STATE_DB shows the link in this state
StoreShows(oper_state) ==
    "oper_state" \in DOMAIN state_db /\ state_db["oper_state"] = oper_state

\* HEARTBEAT_TIMEOUT in ticks
Timeout == HEARTBEAT_TIMEOUT * TicksPerSecond

C5_StoppedLeavesNothing ==
    (phase = "stopped" /\ hdel_done)
        => (/\ fs_symlink # "ours"
            /\ open_fds = {}
            /\ DOMAIN state_db \cap StateFields = {})

(* C7: the state asked for by the last heartbeat ("up") or liveness timeout *)
(* ("down"), no store write having failed since, is the state the store     *)
(* shows, or a write of it is on its way.                                   *)
C7_FailedWriteIsRetried ==
    (Serving /\ asked # "none")
        => (StoreShows(asked) \/ \E i \in 1..Len(tasks) : tasks[i] = asked)

(* C8: no two consecutive store writes carry the same oper_state; once the  *)
(* liveness timer of a running proxy has lapsed the last write issued is    *)
(* the one "down"; oper_state and last_state_change are in the store        *)
(* together.                                                                *)
C8_NoRepeatedWrite ==
    /\ \A i \in 1..(Len(issued) - 1) : issued[i] # issued[i + 1]
    /\ (Serving /\ heartbeat_handle = <<>>)
          => (issued # <<>> /\ issued[Len(issued)] = "down"
              /\ current_oper_state = "down")
    /\ ("oper_state" \in DOMAIN state_db) <=> ("last_state_change" \in DOMAIN state_db)

\* two heartbeats or more were received while up, then nothing: one write of
\* up, one of down, and the store shows down with its time
C8_Witness ==
    /\ Serving
    /\ issued = <<"up", "down">>
    /\ reads >= 2 /\ last_data_activity = last_heartbeat
    /\ last_heartbeat > 0
    /\ tasks = <<>>
    /\ StoreShows("down")
    /\ state_db["last_state_change"] * TicksPerSecond = last_heartbeat + Timeout

C10_StartAllOrNothing ==
    (start_fault # "none" /\ phase \notin {"new", "rollback"})
        => (/\ phase = "failed"
            /\ open_fds = {}
            /\ readers = {}
            /\ fs_symlink # "ours"
            /\ timeout_handle = <<>>
            /\ heartbeat_handle = <<>>)

(* C13: once a read on the serial fd has failed because the device was     *)
(* removed, the proxy has left the running state: its stop sequence is      *)
(* under way or done.                                                       *)
C13_ReadFailureStopsProxy ==
    read_failed => (~running /\ phase \in {"stopping", "stopped"})

(* C21: every step of the proxy, a state projection and the stop sequence  *)
(* included, leaves each field of the link's store key other than           *)
(* oper_state and last_state_change present with its value.                 *)
C21_OtherFieldsKept ==
    [][\A f \in DOMAIN state_db \ StateFields :
           f \in DOMAIN state_db' /\ state_db'[f] = state_db[f]]_vars

\* a projection was written and the stop sequence has removed the two fields
\* beside the other program's field
C21_Witness ==
    /\ phase = "stopped" /\ hdel_done
    /\ issued # <<>> /\ tasks = <<>>
    /\ DOMAIN state_db = {OwnerField}

(* The link proxy fed with frames of a reserved type: a short one and one    *)
(* whose escaped content is more than twice the extractor's buffer; the      *)
(* third chunk is a heartbeat followed by user bytes that end in a DLE.      *)

\* the frames of a type other than HEARTBEAT that the terminal side sends
DropFrames ==
    { Frame(PROTOCOL_VERSION, 2, 0, 2, <<SOF, EOF, DLE>>),
      Frame(PROTOCOL_VERSION, 3, 0, 2, Fill(2 * MAX_FRAME_BUFFER_SIZE)) }

DropChunks ==
    { build(f) : f \in DropFrames }
    \cup { build(create_heartbeat(0)) \o <<Plain, DLE>> }

DropNext ==
    \/ \E fault \in StartFaults : Start(fault)
    \/ \E data \in DropChunks : SerialRead(data)
    \/ SerialReadFails
    \/ FilterTimeout
    \/ HeartbeatTimeout
    \/ \E ok \in BOOLEAN : RunTask(ok)
    \/ StopBegin
    \/ \E ok \in BOOLEAN : StopFinish(ok)
    \/ Tick

DropSpec == Init /\ [][DropNext]_vars

\* what the pty has got when the read of a frame wrote only the user bytes
\* that were buffered before the frame, which its first SOF flushes
PtyAfterDrop ==
    IF "pty_master" \in open_fds /\ ~in_frame /\ buffer # <<>>
    THEN Append(pty_out, buffer) ELSE pty_out

\* the read of a frame left the pty, the liveness timer and oper_state alone
Dropped ==
    /\ pty_out' = PtyAfterDrop
    /\ heartbeat_handle' = heartbeat_handle
    /\ current_oper_state' = current_oper_state
    /\ tasks' = tasks /\ issued' = issued

\* the frames of DropFrames on the line
ReservedChunks == { build(f) : f \in DropFrames }

\* those whose escaped content is shorter than the extractor's buffer
ShortReservedChunks ==
    { build(f) : f \in { g \in DropFrames :
                            Len(EscapedContent(g)) < MAX_FRAME_BUFFER_SIZE } }

\* a step of _on_serial_read
ReadStep == reads' = reads + 1

\* C29 as stated: a well-formed frame whose frame_type is not HEARTBEAT is
\* dropped: none of its bytes are passed to on_user_bytes or written to the
\* pty master, it does not reset the heartbeat-liveness timer and it does not
\* change the link's oper_state.
C29_AsStated ==
    [][ReadStep => \A data \in ReservedChunks : SerialRead(data) => Dropped]_vars

\* C29 (amended): the same of a frame whose escaped content is shorter than
\* MAX_FRAME_BUFFER_SIZE and that arrives when the extractor is not holding
\* an escaping DLE.
C29_ShortFrameDropped ==
    [][(ReadStep /\ ~escape_next) =>
          \A data \in ShortReservedChunks : SerialRead(data) => Dropped]_vars

C29_Witness ==
    /\ reads = 2
    /\ current_oper_state = "up"
    /\ last_heartbeat < last_data_activity
    /\ heartbeat_handle = call_later(HEARTBEAT_TIMEOUT * TicksPerSecond
                                     - (now - last_heartbeat))
    /\ pty_out = <<<<Plain, DLE>>>> /\ buffer = <<>> /\ ~escape_next

(* C33: at most one extractor-timeout callback is pending, and after every  *)
(* serial read that returned data one is pending exactly when the           *)
(* extractor's buffer is not empty; it is a new one, due one filter timeout *)
(* from the read, whatever was pending before having been cancelled.        *)
C33_TimeoutFollowsBuffer ==
    [][ReadStep =>
          /\ timeout_handle' # <<>> <=> buffer' # <<>>
          /\ timeout_handle' # <<>> =>
                timeout_handle' = <<now + calculate_filter_timeout(ProxyBaud)>>]_vars

\* a second read arrived when the timeout set by the first was due and had
\* not run: the bytes of both are buffered and a later timeout is pending
C33_Witness ==
    /\ Serving /\ reads = 2 /\ now > 0
    /\ buffer = <<Plain, Plain>>
    /\ timeout_handle = <<now + calculate_filter_timeout(ProxyBaud)>>

(* C36: no byte that the extractor buffered while in-frame is written to    *)
(* the pty master, by a read, a timeout, an overflow or the flush of the    *)
(* proxy's stop: no step appends the in-frame buffer to what the pty got.   *)
C36_FrameBytesNotWritten ==
    [][(in_frame /\ buffer # <<>>) => pty_out' # Append(pty_out, buffer)]_vars

(* The link proxy with a record of what it read: oplog gets every chunk     *)
(* that os.read returned.  The chunks are made of bytes that differ, so     *)
(* that an exchange or a repetition shows in what the pty master got.       *)

\* chunks read from the serial device in this specification
MaxLinkReads == 2

\* more bytes than the extractor holds, all different
Ramp == [i \in 1..(MAX_FRAME_BUFFER_SIZE + 1) |-> 100 + i]

\* what the terminal side sends: typed bytes, a lone 0x05, a heartbeat with
\* typed bytes after it that end in a DLE, an escaped 0x05 and bytes closed
\* by a 0x00 with a typed byte after it, a burst that overflows the buffer
LinkChunks ==
    { <<66, 67>>,
      <<SOF>>,
      build(create_heartbeat(0)) \o <<68, DLE>>,
      <<DLE, SOF, 69, EOF, 70>>,
      Ramp }

\* _on_serial_read, with the chunk recorded
LinkRead(data) ==
    /\ Len(oplog) < MaxLinkReads
    /\ on_serial_read(data)
    /\ oplog' = Append(oplog, [op |-> "read", data |-> data, frame |-> <<>>])

LinkNext ==
    \/ Start("none")
    \/ \E data \in LinkChunks : LinkRead(data)
    \/ FilterTimeout
    \/ HeartbeatTimeout
    \/ RunTask(TRUE)
    \/ StopBegin
    \/ StopFinish(TRUE)
    \/ Tick

LinkSpec == Init /\ [][LinkNext]_vars

\* the first index after j where b holds byte x, Len(b) + 1 if there is none
NextMatch(b, j, x) ==
    LET found == {k \in (j + 1)..Len(b) : b[k] = x}
    IN  IF found = {} THEN Len(b) + 1
        ELSE CHOOSE k \in found : \A m \in found : k <= m

\* a can be had from b by leaving bytes out: each byte of a is matched to
\* the first byte of b after the match of the byte before it
IsSubsequence(a, b) ==
    LET Step(j, i) == NextMatch(b, j, a[i])
    IN  ForRange(Step, 0, 1, Len(a)) <= Len(b)

(* C31: the bytes written to the pty master are, in the same order, a       *)
(* subsequence of the bytes read from the serial fd: no byte is written     *)
(* twice or before a byte that was read earlier, across read chunks,        *)
(* extractor timeouts, overflow flushes and the flush at stop.              *)
C31_PtyIsSubsequenceOfReads ==
    \E written \in {Concat(pty_out)}, read \in {Fed} :
        IsSubsequence(written, read)

\* an overflow flush, a timeout flush and the flush at stop have each
\* written to the pty master
C31_Witness ==
    /\ phase = "stopped"
    /\ pty_out = <<SubSeq(Ramp, 1, MAX_FRAME_BUFFER_SIZE),
                   <<Ramp[MAX_FRAME_BUFFER_SIZE + 1]>>,
                   <<66, 67>>>>

(* C37: whenever the extractor of a running proxy is in-frame and no more   *)
(* bytes arrive, the proxy calls on_timeout after FILTER_TIMEOUT, so a lone *)
(* 0x05 followed by silence does not leave the extractor in-frame.  For the *)
(* call to come, the timeout callback must be pending while the extractor   *)
(* is in-frame.                                                             *)
C37_InFrameHasTimeout ==
    (Serving /\ in_frame) => timeout_handle # <<>>

-----------------------------------------------------------------------------
(* ProxyManager (dce.py): start, the event loop, the reconcile pass over    *)
(* CONFIG_DB and the shutdown.  A proxy of the manager is the record of its *)
(* baud, the line speed that configure_serial set, and its running flag.    *)
(* Every await of the manager is a step, so that the signal handler and the *)
(* writers of CONFIG_DB run between the steps of a pass.  SerialProxy.stop  *)
(* catches what it can raise, so a stop() raises only under gather, where   *)
(* test_stop_handles_proxy_exception makes it raise.                        *)

MaxEvents == 1
MaxChanges == 2

\* constants.BAUD_MAP: baud rate -> termios speed
BAUD_MAP ==
    (1200 :> "B1200") @@ (2400 :> "B2400") @@ (4800 :> "B4800")
    @@ (9600 :> "B9600") @@ (19200 :> "B19200") @@ (38400 :> "B38400")
    @@ (57600 :> "B57600") @@ (115200 :> "B115200")

\* util.configure_serial: the speed that the serial line is set to
configure_serial(baud) ==
    IF baud \in DOMAIN BAUD_MAP THEN BAUD_MAP[baud] ELSE "B9600"

\* a keyspace notification is delivered to the subscription, if there is one
Notify == IF subscribed /\ events < MaxEvents THEN events + 1 ELSE events

\* the writer changed CONFIG_DB after the initial sync read it and before
\* subscribe_config_changes
Missed == ~subscribed /\ manager_pc \in {"sync", "subscribe"}

\* a writer changes CONFIG_DB while the manager still reads it
Writable == changes < MaxChanges /\ manager_pc \notin {"exit", "stop", "stopped"}

\* CONFIG_DB: CONSOLE_PORT|<link_id> is removed (<<>>) or set to a baud rate
SetConfig(link_id, cfg) ==
    /\ Writable
    /\ cfg # config[link_id]
    /\ changes' = changes + 1
    /\ config' = [config EXCEPT ![link_id] = cfg]
    /\ after_sync' = FALSE
    /\ events' = Notify
    /\ missed' = (missed \/ Missed)
    /\ store_failed' = FALSE
    /\ UNCHANGED <<fvars, pvars, cvars, evars, proxies, enabled, manager_pc, manager_running,
                   subscribed, redis_configs, todo, stopping, db_closed,
                   stop_flag, late_op, pass_enabled, all_started,
                   prev_configs, stops, starts, live>>

\* CONFIG_DB: CONSOLE_SWITCH|console_mgmt enabled is switched
SetEnabled ==
    /\ Writable
    /\ enabled' = ~enabled
    /\ changes' = changes + 1
    /\ after_sync' = FALSE
    /\ events' = Notify
    /\ missed' = (missed \/ Missed)
    /\ store_failed' = FALSE
    /\ UNCHANGED <<fvars, pvars, cvars, evars, proxies, config, manager_pc, manager_running,
                   subscribed, redis_configs, todo, stopping, db_closed,
                   stop_flag, late_op, pass_enabled, all_started,
                   prev_configs, stops, starts, live>>

\* main's signal_handler, on SIGINT or SIGTERM
signal_handler ==
    /\ manager_pc # "stopped"
    /\ stop_flag' = TRUE
    /\ manager_running' = FALSE
    /\ store_failed' = FALSE
    /\ UNCHANGED <<fvars, pvars, cvars, evars, proxies, config, enabled, after_sync,
                   manager_pc, subscribed, events, redis_configs, todo,
                   stopping, db_closed, late_op, missed, pass_enabled,
                   all_started, prev_configs, stops, starts, live, changes>>

\* SerialProxy(link_id, device, baud, ...) after a start() that returned True
StartedProxy(baud) ==
    [baud |-> baud, speed |-> configure_serial(baud), running |-> TRUE]

\* the proxy after stop()
Stopped(proxy) == [proxy EXCEPT !.running = FALSE]

\* the loops of sync, in their order
SyncLoops == <<"remove", "add", "update">>

\* the loop of sync that has work for the link, "none" if no loop has
sync_loop_IgnoresBaud(cfgs, link_id) ==
    IF cfgs[link_id] = <<>>
    THEN (IF proxies[link_id] # <<>> THEN "remove" ELSE "none")
    ELSE IF proxies[link_id] = <<>> THEN "add"
    ELSE "none"

sync_loop(cfgs, link_id) ==
    IF cfgs[link_id] = <<>>
    THEN (IF proxies[link_id] # <<>> THEN "remove" ELSE "none")
    ELSE IF proxies[link_id] = <<>> THEN "add"
    ELSE IF proxies[link_id][1].baud # cfgs[link_id][1] THEN "update"
    ELSE "none"

LoopIndex(loop) == CHOOSE i \in 1..Len(SyncLoops) : SyncLoops[i] = loop

\* sync awaits stop() of the link's proxy
sync_stops_OnlyRemoved(link_id) ==
    sync_loop(redis_configs, link_id) = "remove"

sync_stops(link_id) ==
    sync_loop(redis_configs, link_id) \in {"remove", "update"}

\* sync awaits start() of a new proxy of the link
sync_starts(link_id) ==
    sync_loop(redis_configs, link_id) \in {"add", "update"}

\* what the loops of sync leave in proxies[link_id]; start_ok: the start()
\* that sync calls for this link returns True
sync_link_KeepsOld(link_id, start_ok) ==
    IF redis_configs[link_id] = <<>>
    THEN <<>>
    ELSE IF proxies[link_id] = <<>>
    THEN (IF start_ok THEN <<StartedProxy(redis_configs[link_id][1])>> ELSE <<>>)
    ELSE proxies[link_id]

sync_link(link_id, start_ok) ==
    IF redis_configs[link_id] = <<>>
    THEN <<>>
    ELSE IF proxies[link_id] = <<>>
    THEN (IF start_ok THEN <<StartedProxy(redis_configs[link_id][1])>> ELSE <<>>)
    ELSE IF proxies[link_id][1].baud # redis_configs[link_id][1]
    THEN (IF start_ok THEN <<StartedProxy(redis_configs[link_id][1])>>
          ELSE <<Stopped(proxies[link_id][1])>>)
    ELSE proxies[link_id]

\* DceDbHelper.check_console_feature_enabled; check_ok: the hget is answered
check_console_feature_enabled(check_ok) == check_ok /\ enabled

\* the disabled branch of sync: what it leaves in proxies
stop_all_KeepsProxies(ps) == [l \in Links |-> IF ps[l] = <<>> THEN <<>> ELSE <<Stopped(ps[l][1])>>]

stop_all(ps) == [l \in Links |-> <<>>]

\* the proxies of the link that are started and not stopped, after a stop()
\* of proxies[link_id] has returned
AfterStop(link_id) ==
    IF proxies[link_id] # <<>> /\ proxies[link_id][1].running
    THEN live[link_id] - 1 ELSE live[link_id]

\* where sync returns to: start() before the subscription, run() after it
SyncReturns == IF subscribed THEN "run" ELSE "subscribe"

\* ProxyManager.sync up to the first loop: the flag is read, and either the
\* disabled branch runs or the configuration is read; cfg_ok: get_all_configs
\* is answered.  sync is called by start() and by run() on a message.
SyncBegin(check_ok, cfg_ok) ==
    /\ \/ manager_pc = "start" /\ events' = events
       \/ manager_pc = "wait" /\ events > 0 /\ events' = events - 1
    /\ pass_enabled' = check_console_feature_enabled(check_ok)
    /\ store_failed' = (~check_ok \/ (pass_enabled' /\ ~cfg_ok))
    /\ all_started' = TRUE
    /\ starts' = [l \in Links |-> 0]
    /\ IF ~pass_enabled'
       THEN /\ cfg_ok
            /\ proxies' = stop_all(proxies)
            /\ stops' = [l \in Links |-> IF proxies[l] # <<>> THEN 1 ELSE 0]
            /\ live' = [l \in Links |-> AfterStop(l)]
            /\ late_op' = (late_op \/ (stop_flag /\ \E l \in Links : proxies[l] # <<>>))
            /\ manager_pc' = SyncReturns
            /\ after_sync' = TRUE
            /\ redis_configs' = [l \in Links |-> <<>>]
            /\ prev_configs' = redis_configs
            /\ UNCHANGED todo
       ELSE IF ~cfg_ok
       THEN /\ manager_pc' = "exit"
            /\ after_sync' = FALSE
            /\ stops' = [l \in Links |-> 0]
            /\ UNCHANGED <<proxies, live, late_op, redis_configs, prev_configs, todo>>
       ELSE /\ redis_configs' = config
            /\ prev_configs' = redis_configs
            /\ todo' = {l \in Links : sync_loop(config, l) # "none"}
            /\ manager_pc' = IF todo' = {} THEN SyncReturns ELSE "sync"
            /\ after_sync' = (todo' = {})
            /\ stops' = [l \in Links |-> 0]
            /\ UNCHANGED <<proxies, live, late_op>>
    /\ UNCHANGED <<fvars, pvars, cvars, evars, config, enabled, manager_running, subscribed,
                   stopping, db_closed, stop_flag, missed, changes>>

\* one iteration of a loop of sync, for a link that the loop has work for
SyncLink(link_id, start_ok) ==
    /\ manager_pc = "sync"
    /\ link_id \in todo
    /\ \A l \in todo : LoopIndex(sync_loop(redis_configs, link_id))
                         <= LoopIndex(sync_loop(redis_configs, l))
    /\ start_ok \/ sync_starts(link_id)
    /\ proxies' = [proxies EXCEPT ![link_id] = sync_link(link_id, start_ok)]
    /\ stops' = [stops EXCEPT ![link_id] = @ + (IF sync_stops(link_id) THEN 1 ELSE 0)]
    /\ starts' = [starts EXCEPT ![link_id] = @ + (IF sync_starts(link_id) THEN 1 ELSE 0)]
    /\ all_started' = (all_started /\ start_ok)
    /\ live' = [live EXCEPT ![link_id] =
                  (IF sync_stops(link_id) THEN AfterStop(link_id) ELSE @)
                  + (IF sync_starts(link_id) /\ start_ok THEN 1 ELSE 0)]
    /\ late_op' = (late_op \/ stop_flag)
    /\ todo' = todo \ {link_id}
    /\ manager_pc' = IF todo' = {} THEN SyncReturns ELSE "sync"
    /\ after_sync' = (todo' = {} /\ config = redis_configs)
    /\ store_failed' = FALSE
    /\ UNCHANGED <<fvars, pvars, cvars, evars, config, enabled, manager_running, subscribed,
                   events, redis_configs, stopping, db_closed, stop_flag,
                   missed, pass_enabled, prev_configs, changes>>

\* ProxyManager.start after its sync: subscribe_config_changes, then
\* running = True; ok: the psubscribe is answered
Subscribe(ok) ==
    /\ manager_pc = "subscribe"
    /\ subscribed' = ok
    /\ manager_running' = (ok \/ manager_running)
    /\ manager_pc' = IF ok THEN "run" ELSE "exit"
    /\ store_failed' = FALSE
    /\ UNCHANGED <<fvars, pvars, cvars, evars, proxies, config, enabled, after_sync, events,
                   redis_configs, todo, stopping, db_closed, stop_flag,
                   late_op, missed, pass_enabled, all_started, prev_configs,
                   stops, starts, live, changes>>

\* ProxyManager.run: the test of its while loop
RunLoop ==
    /\ manager_pc = "run"
    /\ manager_pc' = IF manager_running THEN "wait" ELSE "exit"
    /\ store_failed' = FALSE
    /\ UNCHANGED <<fvars, pvars, cvars, evars, proxies, config, enabled, after_sync,
                   manager_running, subscribed, events, redis_configs, todo,
                   stopping, db_closed, stop_flag, late_op, missed,
                   pass_enabled, all_started, prev_configs, stops, starts,
                   live, changes>>

\* ProxyManager.run: get_config_event returns None after its timeout
\* (ok), or raises
GetConfigEvent(ok) ==
    /\ manager_pc = "wait"
    /\ ok => events = 0
    /\ manager_pc' = IF ok THEN "run" ELSE "exit"
    /\ store_failed' = ~ok
    /\ UNCHANGED <<fvars, pvars, cvars, evars, proxies, config, enabled, after_sync,
                   manager_running, subscribed, events, redis_configs, todo,
                   stopping, db_closed, stop_flag, late_op, missed,
                   pass_enabled, all_started, prev_configs, stops, starts,
                   live, changes>>

\* ProxyManager.stop, called by main's finally, up to its gather
ManagerStopBegin ==
    /\ manager_pc = "exit"
    /\ manager_running' = FALSE
    /\ stopping' = {l \in Links : proxies[l] # <<>>}
    /\ stops' = [l \in Links |-> 0]
    /\ starts' = [l \in Links |-> 0]
    /\ manager_pc' = "stop"
    /\ after_sync' = FALSE
    /\ store_failed' = FALSE
    /\ UNCHANGED <<fvars, pvars, cvars, evars, proxies, config, enabled, subscribed, events,
                   redis_configs, todo, db_closed, stop_flag, late_op, missed,
                   pass_enabled, all_started, prev_configs, live, changes>>

\* a stop() under the gather of ProxyManager.stop returns or raises
ProxyStopDone(link_id, raised) ==
    /\ manager_pc = "stop"
    /\ link_id \in stopping
    /\ stopping' = stopping \ {link_id}
    /\ stops' = [stops EXCEPT ![link_id] = @ + 1]
    /\ proxies' = [proxies EXCEPT ![link_id] =
                     IF raised THEN @ ELSE <<Stopped(@[1])>>]
    /\ live' = [live EXCEPT ![link_id] = IF raised THEN @ ELSE AfterStop(link_id)]
    /\ store_failed' = FALSE
    /\ UNCHANGED <<fvars, pvars, cvars, evars, config, enabled, after_sync, manager_pc,
                   manager_running, subscribed, events, redis_configs, todo,
                   db_closed, stop_flag, late_op, missed, pass_enabled,
                   all_started, prev_configs, starts, changes>>

\* asyncio.gather(..., return_exceptions=True) returns
gather_done_FirstCompleted(pending) == Cardinality(pending) <= 1

gather_done(pending) == pending = {}

\* ProxyManager.stop after its gather: proxies.clear() and db.close()
ManagerStopEnd ==
    /\ manager_pc = "stop"
    /\ gather_done(stopping)
    /\ proxies' = [l \in Links |-> <<>>]
    /\ db_closed' = TRUE
    /\ manager_pc' = "stopped"
    /\ store_failed' = FALSE
    /\ UNCHANGED <<fvars, pvars, cvars, evars, config, enabled, after_sync, manager_running,
                   subscribed, events, redis_configs, todo, stopping,
                   stop_flag, late_op, missed, pass_enabled, all_started,
                   prev_configs, stops, starts, live, changes>>

SyncInit ==
    /\ buffer = <<>>
    /\ escape_next = FALSE
    /\ in_frame = FALSE
    /\ frames_out = <<>>
    /\ user_out = <<>>
    /\ oplog = <<>>
    /\ ProxyNew /\ fs_symlink = "none"
    /\ ProxyManagerNew
    /\ config \in [Links -> {<<>>} \cup {<<b>> : b \in Bauds}]
    /\ enabled \in BOOLEAN
    /\ CodecNew /\ c_frame = <<>> /\ c_x = <<>>
    /\ EmitterNew /\ dte_flag = FALSE

SyncNext ==
    \/ \E l \in Links, cfg \in {<<>>} \cup {<<b>> : b \in Bauds} : SetConfig(l, cfg)
    \/ SetEnabled
    \/ signal_handler
    \/ \E check_ok \in BOOLEAN, cfg_ok \in BOOLEAN : SyncBegin(check_ok, cfg_ok)
    \/ \E l \in Links, start_ok \in BOOLEAN : SyncLink(l, start_ok)
    \/ \E ok \in BOOLEAN : Subscribe(ok)
    \/ RunLoop
    \/ \E ok \in BOOLEAN : GetConfigEvent(ok)
    \/ ManagerStopBegin
    \/ \E l \in Links, raised \in BOOLEAN : ProxyStopDone(l, raised)
    \/ ManagerStopEnd

SyncSpec == SyncInit /\ [][SyncNext]_vars

(* C6: after every reconcile pass, each entry of proxies is absent or a     *)
(* running proxy whose baud is the configured baud_rate of its link.        *)
C6_ProxiesMatchConfig ==
    after_sync =>
        \A l \in Links :
            \/ proxies[l] = <<>>
            \/ /\ proxies[l][1].running
               /\ config[l] # <<>>
               /\ proxies[l][1].baud = config[l][1]

(* C11: the supervisor holds no proxy whose baud is outside BAUD_MAP: a     *)
(* start() with such a baud fails and the proxy is not added.               *)
C11_UnsupportedBaudNotStarted ==
    \A l \in Links :
        proxies[l] # <<>> => proxies[l][1].baud \in DOMAIN BAUD_MAP

(* C12: a step in which the read of the feature flag, the read of the       *)
(* configuration or the wait for an event fails changes no proxy and does   *)
(* not make the supervisor leave its loop.                                  *)
C12_StoreFailureChangesNothing ==
    [][store_failed' => (proxies' = proxies /\ manager_pc' # "exit")]_vars

(* C14: the subscription is in place before the initial reconcile reads     *)
(* CONFIG_DB, so no write to CONFIG_DB after that read goes without a       *)
(* keyspace event.                                                          *)
C14_EveryChangeIsNotified == ~missed

(* C15: once the signal handler has set the stop flag, a reconcile pass     *)
(* begins no stop and no start of a proxy.                                  *)
C15_NoWorkAfterStopFlag == ~late_op

(* C16: in ProxyManager.stop every proxy of proxies is awaited by the       *)
(* gather or its stop() has been called; the store adapter is closed only   *)
(* when no stop() is pending, a stop() that raised included, and then       *)
(* proxies is empty and running is false.                                   *)
C16_ShutdownStopsEveryProxy ==
    /\ manager_pc = "stop" =>
          \A l \in Links :
              proxies[l] # <<>> => (l \in stopping \/ stops[l] = 1)
    /\ db_closed =>
          /\ manager_pc = "stopped"
          /\ stopping = {}
          /\ \A l \in Links : proxies[l] = <<>>
          /\ \A l \in Links : live[l] > 0 => stops[l] = 1
          /\ ~manager_running

\* the store is closed after a stop() that raised and one that returned
C16_Witness ==
    /\ db_closed
    /\ \E l, k \in Links :
          /\ stops[l] = 1 /\ live[l] = 1
          /\ stops[k] = 1 /\ live[k] = 0

\* sync has returned and the manager has done nothing to proxies since
PassDone == manager_pc \in {"subscribe", "run", "wait"}

Reconciled(l) == proxies[l] # <<>> /\ redis_configs[l] # <<>>

\* the step leaves the link's proxy and its counts of stop() and start()
Untouched(l) ==
    /\ proxies'[l] = proxies[l]
    /\ stops'[l] = stops[l]
    /\ starts'[l] = starts[l]

(* C18 as stated: a pass stops and starts once each link whose configured   *)
(* baud differs from the one the pass before read, and neither stops nor    *)
(* starts a link whose configuration is the one the pass before read.       *)
C18_AsStated ==
    (PassDone /\ pass_enabled) =>
        \A l \in Links :
            /\ redis_configs[l] = prev_configs[l]
                  => (stops[l] = 0 /\ starts[l] = 0)
            /\ (redis_configs[l] # <<>> /\ prev_configs[l] # <<>>
                /\ redis_configs[l] # prev_configs[l])
                  => (stops[l] = 1 /\ starts[l] = 1)

(* C18: in a pass that read the flag as "yes", a link whose proxy has the   *)
(* baud that the pass read is not touched by any step of the pass; a link   *)
(* whose proxy has another baud is in the work of the pass from its         *)
(* beginning, is touched by one step only, which calls one stop() and one   *)
(* start() for it, and the pass does not return before that step.           *)
C18_BaudChangeRestartsOnlyThatLink ==
    [][/\ (manager_pc # "sync" /\ manager_pc' = "sync") =>
              \A l \in Links :
                  /\ stops'[l] = 0 /\ starts'[l] = 0
                  /\ (proxies'[l] # <<>> /\ redis_configs'[l] # <<>>
                      /\ proxies'[l][1].baud # redis_configs'[l][1])
                        => l \in todo'
       /\ manager_pc = "sync" =>
              /\ manager_pc' # "sync" => todo' = {}
              /\ \A l \in Links :
                    Reconciled(l) =>
                        IF proxies[l][1].baud # redis_configs[l][1] /\ l \in todo
                        THEN \/ Untouched(l) /\ l \in todo'
                             \/ /\ l \notin todo'
                                /\ stops'[l] = 1 /\ starts'[l] = 1
                        ELSE Untouched(l)
      ]_vars

\* a pass has restarted the link whose baud was changed and has not touched
\* the proxy of a link whose configuration was not changed
C18_Witness ==
    /\ PassDone /\ pass_enabled
    /\ \E l, k \in Links :
          /\ prev_configs[l] # <<>> /\ redis_configs[l] # <<>>
          /\ prev_configs[l] # redis_configs[l]
          /\ stops[l] = 1 /\ starts[l] = 1
          /\ prev_configs[k] = redis_configs[k] /\ proxies[k] # <<>>
          /\ stops[k] = 0 /\ starts[k] = 0

(* C19: after a pass that read the flag as not "yes", proxies is empty, no  *)
(* proxy of any link is left started, and the pass has called no start().   *)
C19_DisabledStopsEverything ==
    (PassDone /\ ~pass_enabled) =>
        \A l \in Links :
            /\ proxies[l] = <<>>
            /\ live[l] = 0
            /\ starts[l] = 0

\* such a pass has stopped the proxy of a configured link
C19_Witness ==
    /\ PassDone /\ ~pass_enabled
    /\ \E l \in Links : stops[l] = 1 /\ config[l] # <<>> /\ proxies[l] = <<>>

(* C20: at every moment each link has at most one proxy that is started and *)
(* not stopped, and until the shutdown is over that proxy is the running    *)
(* proxy in proxies.                                                        *)
C20_AtMostOneLiveProxy ==
    \A l \in Links :
        /\ live[l] \in {0, 1}
        /\ (live[l] = 1 /\ ~db_closed)
              => (proxies[l] # <<>> /\ proxies[l][1].running)

\* a pass has stopped the link's proxy and started a new one, which is the
\* one started proxy of the link
C20_Witness ==
    \E l \in Links :
        /\ stops[l] = 1 /\ starts[l] = 1
        /\ live[l] = 1
        /\ proxies[l] # <<>> /\ proxies[l][1].running

(* C35: a SIGINT or SIGTERM delivered at any point after the handlers are  *)
(* installed, including while ProxyManager.start() is still awaiting, makes *)
(* the run loop exit: the stop request is never lost.  As a state          *)
(* property: once the handler has run, the manager's running flag is       *)
(* false, whatever start() does afterwards.                                *)
C35_StopRequestKept ==
    stop_flag => ~manager_running

(* C39: reconcile is self-healing: whatever passes came before, a pass that *)
(* reads the flag as "yes" and in which every attempted start() succeeds    *)
(* leaves every configured link with a running proxy that uses the          *)
(* configured baud.                                                         *)
C39_PassHeals ==
    (PassDone /\ pass_enabled /\ all_started) =>
        \A l \in Links :
            redis_configs[l] # <<>> =>
                /\ proxies[l] # <<>>
                /\ proxies[l][1].running
                /\ proxies[l][1].baud = redis_configs[l][1]

-----------------------------------------------------------------------------
(* DTEHeartbeat (dte.py), the heartbeat emitter of the terminal side, and   *)
(* the feature flag it follows in CONFIG_DB.  The service reads the flag    *)
(* once in start(), then on every keyspace message.  _stop_heartbeat        *)
(* cancels the task; the cancelled task ends at its await before the        *)
(* service can start a new one (every path to _start_heartbeat goes through *)
(* the hget of _check_enabled), so a cancelled task is "done" at once.      *)

\* dte.py
HEARTBEAT_INTERVAL == 5

\* mutant: the sequence number without the wrap
next_seq_NoWrap(seq) == seq + 1

\* _send_heartbeat: self.seq = (self.seq + 1) % 256
next_seq(seq) == (seq + 1) % 256

\* _check_enabled: the flag is "yes" and the hget is answered (it returns
\* False when the hget raises)
check_enabled(check_ok) == check_ok /\ dte_flag

\* the task that _start_heartbeat leaves
start_heartbeat(task) == IF task \in {"none", "done"} THEN "ready" ELSE task

\* mutant: _stop_heartbeat that leaves the task alone
stop_heartbeat_Noop(task) == task

\* the task that _stop_heartbeat leaves
stop_heartbeat(task) == IF task \in {"ready", "sleeping"} THEN "done" ELSE task

EmitterInit ==
    /\ buffer = <<>>
    /\ escape_next = FALSE
    /\ in_frame = FALSE
    /\ frames_out = <<>>
    /\ user_out = <<>>
    /\ oplog = <<>>
    /\ ProxyNew /\ fs_symlink = "none"
    /\ ManagerNew
    /\ CodecNew /\ c_frame = <<>> /\ c_x = <<>>
    /\ EmitterNew
    /\ dte_flag \in BOOLEAN

\* DTEHeartbeat.start, from its call to the answer of the hget in
\* _check_enabled and on to its return; open_ok: the serial device opens and
\* the store answers the ping
EmitterStart(open_ok, check_ok) ==
    /\ dte_pc = "new"
    /\ IF open_ok
       THEN /\ dte_running' = TRUE
            /\ dte_enabled' = check_enabled(check_ok)
            /\ dte_heartbeat_task' =
                  IF check_enabled(check_ok)
                  THEN start_heartbeat(dte_heartbeat_task)
                  ELSE dte_heartbeat_task
            /\ dte_pc' = "started"
       ELSE /\ dte_pc' = "stopped"
            /\ UNCHANGED <<dte_running, dte_enabled, dte_heartbeat_task>>
    /\ UNCHANGED <<fvars, pvars, svars, cvars, dte_flag, dte_seq,
                   dte_subscribed, dte_events, dte_last_seq, dte_missed,
                   dte_since>>

\* _subscribe_loop up to the answer of pubsub.subscribe
EmitterSubscribe ==
    /\ dte_pc = "started" /\ ~dte_subscribed
    /\ dte_subscribed' = TRUE
    /\ UNCHANGED <<fvars, pvars, svars, cvars, dte_flag, dte_running,
                   dte_enabled, dte_seq, dte_heartbeat_task, dte_events,
                   dte_last_seq, dte_missed, dte_pc, dte_since>>

\* an operator writes the flag; the store publishes a keyspace message to
\* the subscribers it has
SetFlag(value) ==
    /\ dte_flag # value
    /\ dte_events < MaxEvents
    /\ dte_flag' = value
    /\ dte_events' = IF dte_subscribed THEN dte_events + 1 ELSE dte_events
    /\ dte_missed' = (dte_missed \/ (dte_pc = "started" /\ ~dte_subscribed))
    /\ UNCHANGED <<fvars, pvars, svars, cvars, dte_running, dte_enabled,
                   dte_seq, dte_heartbeat_task, dte_subscribed, dte_last_seq,
                   dte_pc, dte_since>>

\* _subscribe_loop: get_message returns a message, and the hget of
\* _check_enabled is answered (or raises)
EmitterMessage(check_ok) ==
    /\ dte_pc = "started" /\ dte_subscribed /\ dte_running
    /\ dte_events > 0
    /\ dte_events' = dte_events - 1
    /\ LET new_enabled == check_enabled(check_ok)
       IN  IF new_enabled # dte_enabled
           THEN /\ dte_enabled' = new_enabled
                /\ dte_heartbeat_task' =
                      IF new_enabled THEN start_heartbeat(dte_heartbeat_task)
                      ELSE stop_heartbeat(dte_heartbeat_task)
           ELSE UNCHANGED <<dte_enabled, dte_heartbeat_task>>
    /\ UNCHANGED <<fvars, pvars, svars, cvars, dte_flag, dte_running, dte_seq,
                   dte_subscribed, dte_last_seq, dte_missed, dte_pc,
                   dte_since>>

\* _heartbeat_loop from the test of its loop condition to the next await
\* (or to its end): the task has just been started, or its sleep is over;
\* write_ok: os.write takes the frame (otherwise it raises, and
\* _send_heartbeat logs that)
HeartbeatLoop(write_ok) ==
    /\ \/ dte_heartbeat_task = "ready"
       \/ dte_heartbeat_task = "sleeping" /\ dte_since = HEARTBEAT_INTERVAL
    /\ IF dte_running /\ dte_enabled
       THEN /\ dte_heartbeat_task' = "sleeping"
            /\ IF write_ok
               THEN /\ dte_last_seq' = dte_seq
                    /\ dte_seq' = next_seq(dte_seq)
               ELSE UNCHANGED <<dte_last_seq, dte_seq>>
       ELSE /\ dte_heartbeat_task' = "done"
            /\ UNCHANGED <<dte_last_seq, dte_seq>>
    /\ dte_since' = 0
    /\ UNCHANGED <<fvars, pvars, svars, cvars, dte_flag, dte_running,
                   dte_enabled, dte_subscribed, dte_events, dte_missed,
                   dte_pc>>

\* a second of asyncio.sleep(HEARTBEAT_INTERVAL) passes
EmitterSleep ==
    /\ dte_heartbeat_task = "sleeping"
    /\ dte_since < HEARTBEAT_INTERVAL
    /\ dte_since' = dte_since + 1
    /\ UNCHANGED <<fvars, pvars, svars, cvars, dte_flag, dte_running,
                   dte_enabled, dte_seq, dte_heartbeat_task, dte_subscribed,
                   dte_events, dte_last_seq, dte_missed, dte_pc>>

\* DTEHeartbeat.stop
EmitterStop ==
    /\ dte_pc = "started"
    /\ dte_running' = FALSE
    /\ dte_heartbeat_task' = stop_heartbeat(dte_heartbeat_task)
    /\ dte_subscribed' = FALSE
    /\ dte_events' = 0
    /\ dte_pc' = "stopped"
    /\ UNCHANGED <<fvars, pvars, svars, cvars, dte_flag, dte_enabled, dte_seq,
                   dte_last_seq, dte_missed, dte_since>>

EmitterNext ==
    \/ \E open_ok, check_ok \in BOOLEAN : EmitterStart(open_ok, check_ok)
    \/ EmitterSubscribe
    \/ \E value \in BOOLEAN : SetFlag(value)
    \/ \E check_ok \in BOOLEAN : EmitterMessage(check_ok)
    \/ \E write_ok \in BOOLEAN : HeartbeatLoop(write_ok)
    \/ EmitterSleep
    \/ EmitterStop

EmitterSpec == EmitterInit /\ [][EmitterNext]_vars

-----------------------------------------------------------------------------
(* Claims about the heartbeat emitter (checked under EmitterSpec) *)

\* a step that writes a heartbeat frame to the serial fd
WriteStep == dte_last_seq' # dte_last_seq

\* the service is started and has nothing left to learn about the flag: it
\* subscribed before any write that followed its first read, and it has
\* taken every message
Settled ==
    /\ dte_pc = "started" /\ dte_subscribed
    /\ ~dte_missed /\ dte_events = 0

\* the heartbeat task is in its loop
Emitting == dte_heartbeat_task \in {"ready", "sleeping"}

(* C30: the emitter writes heartbeat frames only while the feature flag is   *)
(* "yes", and while it is, it writes one every HEARTBEAT_INTERVAL.  Here:    *)
(* once the service has taken every message about the flag, its heartbeat    *)
(* loop runs exactly when the flag is "yes".                                 *)
C30_EmitsWhileFlagIsYes ==
    Settled => (Emitting <=> dte_flag)

(* What holds of the emitter in every run: it writes frames only while the   *)
(* flag, as it last read it, is "yes"; a frame carries seq = counter, in     *)
(* 0..255, and the counter is then incremented modulo 256, so consecutive    *)
(* frames carry consecutive seq values modulo 256; a frame that follows      *)
(* another in the same run of the loop is written HEARTBEAT_INTERVAL after   *)
(* it; and once the flag has been read as not "yes" the heartbeat task is    *)
(* over, so nothing is written until the flag is read as "yes" again.        *)
C30_HeartbeatsWhileEnabled ==
    [][/\ WriteStep =>
            /\ dte_enabled /\ dte_running
            /\ dte_last_seq' = dte_seq
            /\ dte_seq \in 0..255
            /\ dte_seq' = (dte_seq + 1) % 256
            /\ dte_last_seq # -1 => dte_seq = (dte_last_seq + 1) % 256
            /\ dte_heartbeat_task = "sleeping" => dte_since = HEARTBEAT_INTERVAL
            /\ dte_heartbeat_task' = "sleeping" /\ dte_since' = 0
       /\ ~dte_enabled' => dte_heartbeat_task' \in {"none", "done"}
       /\ (dte_pc' = "started" /\ dte_enabled')
             => dte_heartbeat_task' \in {"ready", "sleeping"}]_vars

\* the counter has wrapped: frame 255 was written and the next carries 0
C30_Witness ==
    /\ dte_last_seq = 255 /\ dte_seq = 0
    /\ dte_enabled /\ dte_heartbeat_task = "sleeping"

(* C40: at most one heartbeat loop task is active at any time, and after a  *)
(* flag-change notification has been processed a heartbeat loop is active   *)
(* exactly when the flag value the service last observed is "yes", for      *)
(* every sequence of toggles.  The service holds one task at a time; a      *)
(* task it replaced is over (none or done) when the new one is created.     *)
C40_LoopFollowsObservedFlag ==
    dte_pc = "started" => (Emitting <=> dte_enabled)

\* a second loop task has been created after the first one wrote frames and
\* was cancelled, and every notification has been processed
C40_Witness ==
    /\ dte_pc = "started" /\ dte_events = 0
    /\ dte_flag /\ dte_enabled
    /\ dte_heartbeat_task = "ready" /\ dte_last_seq # -1

=============================================================================
